---- MODULE Spec2Model ----
(***************************************************************************)
(* A model of the impostor mock-server compiler (impostor_compiler_axum): *)
(* the template engine, the assertion engine (Query, Predicate, Assert),  *)
(* Entry::matches / Entry::handler and the per-route closure that          *)
(* compile_ast registers with the axum router.                            *)
(*                                                                         *)
(* Strings are sequences of atoms (<<"bar">> is the text bar); the quote   *)
(* characters and the control character are atoms of their own, so that    *)
(* quote trimming and header-value validation act on them as in the code.  *)
(***************************************************************************)
EXTENDS Integers, Sequences, FiniteSets, TLC

VARIABLES
    router,     \* routes_to_entries as registered with axum: (path, method) -> Vec<Entry>
    pc,         \* position of the request being handled
    request,    \* the request in flight
    idx,        \* index of the next entry of the bucket that the closure evaluates
    bucket,     \* the Vec<Entry> captured by the closure the request was routed to
    response,   \* the response of the request in flight
    servedBy,   \* index in the bucket of the entry whose handler built the response (0: none)
    evals,      \* number of Entry::matches calls made for the request in flight
    call,       \* unit-level specifications: the pending call of a pure function
    result      \* unit-level specifications: what the call returned

vars == <<router, pc, request, idx, bucket, response, servedBy, evals, call, result>>

dispatchVars == <<router, pc, request, idx, bucket, response, servedBy, evals>>

\* ------------------------------------------------------------------ bounds

MaxEntries == 2

\* template inputs: atoms per literal fragment, elements per template
MaxStrLen == 2

MaxElements == 2

\* longest string handed to the quote trimming on its own
MaxTrimLen == 4

\* most implicit header lines of a request
MaxHeaderLines == 2

\* longest source text handed to the section parser, in tokens
MaxSectionLen == 4

\* most asserts of an entry matched on its own
MaxAsserts == 2

\* request-handling tasks running at one time
MaxTasks == 2

\* numeric inputs: the integers -MaxNum..MaxNum and the floats in steps of one half
MaxNum == 2

\* ------------------------------------------------------------------ strings

SQ == "'"
DQ == "\""
\* the backtick character (the atom is spelled out: a TLA+ string cannot hold it)
BT == "BACKTICK"
\* the control character 0x7f
DEL == "^?"

QuoteChars == {SQ, DQ, BT}

ControlChars == {DEL}

\* fold a sequence of strings into one string
RECURSIVE Join(_)
Join(ss) == IF ss = <<>> THEN <<>> ELSE Head(ss) \o Join(Tail(ss))

\* ------------------------------------------------------------------ lib.rs

\* trimming that takes any two quote characters at the ends for a pair
possibly_trim_mismatched_quotes(s) ==
    IF Len(s) >= 2 /\ s[1] \in QuoteChars /\ s[Len(s)] \in QuoteChars
    THEN SubSeq(s, 2, Len(s) - 1)
    ELSE s

possibly_trim_surrounding_quotes(s) ==
    IF Len(s) >= 2 /\ s[1] = s[Len(s)] /\ s[1] \in QuoteChars
    THEN SubSeq(s, 2, Len(s) - 1)
    ELSE s

\* ------------------------------------------------------------------ AST templates

NoDelimiter == ""

StringElement(s) == [kind |-> "String", encoded |-> s, name |-> ""]

ExpressionElement(n) == [kind |-> "Expression", encoded |-> <<>>, name |-> n]

Template(d, els) == [delimiter |-> d, elements |-> els]

\* impostor_core::ast::TemplateElement::encoded
TemplateElement_encoded(el) ==
    IF el.kind = "String" THEN el.encoded ELSE <<"{{", el.name, "}}">>

\* impostor_core::ast::Template::encoded: the source text, delimiters included
Template_encoded(t) ==
    LET inner == Join([i \in 1..Len(t.elements) |-> TemplateElement_encoded(t.elements[i])])
    IN  IF t.delimiter = NoDelimiter THEN inner
        ELSE <<t.delimiter>> \o inner \o <<t.delimiter>>

\* ------------------------------------------------------------------ template.rs

ExecOk(s) == [ok |-> TRUE, val |-> s, err |-> ""]

UnknownVariable(n) == [ok |-> FALSE, val |-> <<>>, err |-> n]

RECURSIVE execute_from(_, _, _, _)
execute_from(els, context, i, acc) ==
    IF i > Len(els) THEN ExecOk(acc)
    ELSE IF els[i].kind = "String"
         THEN execute_from(els, context, i + 1, acc \o els[i].encoded)
         ELSE IF els[i].name \in DOMAIN context
              THEN execute_from(els, context, i + 1, acc \o context[els[i].name])
              ELSE UnknownVariable(els[i].name)

execute_lenient(template, context) ==
    ExecOk(Join([i \in 1..Len(template.elements) |-> template.elements[i].encoded]))

execute(template, context) == execute_from(template.elements, context, 1, <<>>)

EmptyContext == [n \in {} |-> <<>>]

SoTString(s) == [kind |-> "String", s |-> s, t |-> Template(NoDelimiter, <<>>)]

SoTTemplate(t) == [kind |-> "Template", s |-> <<>>, t |-> t]

HasExpression(t) == \E i \in 1..Len(t.elements) : t.elements[i].kind = "Expression"

from_ast_template(template) ==
    IF HasExpression(template)
    THEN SoTTemplate(template)
    ELSE SoTString(possibly_trim_surrounding_quotes(Template_encoded(template)))

StringOrTemplate_execute(sot) ==
    IF sot.kind = "String" THEN ExecOk(sot.s) ELSE execute(sot.t, EmptyContext)

\* ------------------------------------------------------------------ serde_json::Value

NoFields == [k \in {} |-> 0]

Null == [t |-> "null", s |-> <<>>, h |-> 0, items |-> <<>>, fields |-> NoFields]

String(s) == [t |-> "string", s |-> s, h |-> 0, items |-> <<>>, fields |-> NoFields]

Bool(b) == [t |-> "bool", s |-> <<>>, h |-> IF b THEN 1 ELSE 0, items |-> <<>>, fields |-> NoFields]

\* a JSON number holding the i64 n; h is twice the value
I64(n) == [t |-> "i64", s |-> <<>>, h |-> 2 * n, items |-> <<>>, fields |-> NoFields]

\* a JSON number holding the f64 h/2
F64(h) == [t |-> "f64", s |-> <<>>, h |-> h, items |-> <<>>, fields |-> NoFields]

Array(items) == [t |-> "array", s |-> <<>>, h |-> 0, items |-> items, fields |-> NoFields]

Object(fields) == [t |-> "object", s |-> <<>>, h |-> 0, items |-> <<>>, fields |-> fields]

IsNumber(v) == v.t \in {"i64", "f64"}

is_i64(v) == v.t = "i64"

\* f64::floor and f64::ceil followed by `as i64`, on a value given in halves
Floor(h) == h \div 2

Ceil(h) == -((-h) \div 2)

\* ------------------------------------------------------------------ asserts/predicate.rs

Integer(n) == [kind |-> "Integer", h |-> 2 * n]

Float(h) == [kind |-> "Float", h |-> h]

BigInteger == [kind |-> "BigInteger", h |-> 0]

PBool(b) == [abort |-> FALSE, b |-> b]

\* todo!() and unwrap() on None panic: the call never returns
PAbort == [abort |-> TRUE, b |-> FALSE]

compare_eq(first, second) == PBool(first = second)

compare_ne(first, second) == PBool(first # second)

\* compare_gt with the float operand rounded down before the integer comparison
compare_gt_floor(first, second) ==
    IF ~IsNumber(second) THEN PBool(FALSE)
    ELSE CASE first.kind = "Integer" ->
                IF is_i64(second) THEN PBool(first.h > second.h)
                ELSE PBool(Floor(first.h) > Floor(second.h))
           [] first.kind = "Float" ->
                IF is_i64(second) THEN PBool(Floor(first.h) > Floor(second.h))
                ELSE PBool(first.h > second.h)
           [] OTHER -> PAbort

compare_gt(first, second) ==
    IF ~IsNumber(second) THEN PBool(FALSE)
    ELSE CASE first.kind = "Integer" ->
                IF is_i64(second) THEN PBool(first.h > second.h)
                ELSE PBool(Floor(first.h) > Floor(second.h))
           [] first.kind = "Float" ->
                IF is_i64(second) THEN PBool(Ceil(first.h) > Floor(second.h))
                ELSE PBool(first.h > second.h)
           [] OTHER -> PAbort

\* compare_gteq with the float subject rounded up before the integer comparison
compare_gteq_ceil(first, second) ==
    IF ~IsNumber(second) THEN PBool(FALSE)
    ELSE CASE first.kind = "Integer" ->
                IF is_i64(second) THEN PBool(first.h >= second.h)
                ELSE PBool(Floor(first.h) >= Ceil(second.h))
           [] first.kind = "Float" ->
                IF is_i64(second) THEN PBool(Ceil(first.h) >= Floor(second.h))
                ELSE PBool(first.h >= second.h)
           [] OTHER -> PAbort

compare_gteq(first, second) ==
    IF ~IsNumber(second) THEN PBool(FALSE)
    ELSE CASE first.kind = "Integer" ->
                IF is_i64(second) THEN PBool(first.h >= second.h)
                ELSE PBool(Floor(first.h) >= Floor(second.h))
           [] first.kind = "Float" ->
                IF is_i64(second) THEN PBool(Ceil(first.h) >= Floor(second.h))
                ELSE PBool(first.h >= second.h)
           [] OTHER -> PAbort

compare_lt_ceil(first, second) ==
    IF ~IsNumber(second) THEN PBool(FALSE)
    ELSE CASE first.kind = "Integer" ->
                IF is_i64(second) THEN PBool(first.h < second.h)
                ELSE PBool(Floor(first.h) < Ceil(second.h))
           [] first.kind = "Float" ->
                IF is_i64(second) THEN PBool(Ceil(first.h) < Floor(second.h))
                ELSE PBool(first.h < second.h)
           [] OTHER -> PAbort

compare_lt(first, second) ==
    IF ~IsNumber(second) THEN PBool(FALSE)
    ELSE CASE first.kind = "Integer" ->
                IF is_i64(second) THEN PBool(first.h < second.h)
                ELSE PBool(Floor(first.h) < Ceil(second.h))
           [] first.kind = "Float" ->
                IF is_i64(second) THEN PBool(Floor(first.h) < Floor(second.h))
                ELSE PBool(first.h < second.h)
           [] OTHER -> PAbort

\* compare_lteq matching on the operand before the subject
compare_lteq_operand_first(first, second) ==
    CASE first.kind = "Integer" ->
            IF ~IsNumber(second) THEN PBool(FALSE)
            ELSE IF is_i64(second) THEN PBool(first.h <= second.h)
            ELSE PBool(Floor(first.h) <= Ceil(second.h))
      [] first.kind = "Float" ->
            IF ~IsNumber(second) THEN PBool(FALSE)
            ELSE IF is_i64(second) THEN PBool(Floor(first.h) <= Floor(second.h))
            ELSE PBool(first.h <= second.h)
      [] OTHER -> PAbort

compare_lteq(first, second) ==
    IF ~IsNumber(second) THEN PBool(FALSE)
    ELSE CASE first.kind = "Integer" ->
                IF is_i64(second) THEN PBool(first.h <= second.h)
                ELSE PBool(Floor(first.h) <= Ceil(second.h))
           [] first.kind = "Float" ->
                IF is_i64(second) THEN PBool(Floor(first.h) <= Floor(second.h))
                ELSE PBool(first.h <= second.h)
           [] OTHER -> PAbort

NumericPredicateFuncs == {"GreaterThan", "GreaterThanOrEqual", "LessThan", "LessThanOrEqual"}

\* str::starts_with, str::ends_with, str::contains on strings as sequences
str_starts_with(s, prefix) ==
    Len(prefix) <= Len(s) /\ SubSeq(s, 1, Len(prefix)) = prefix

str_ends_with(s, suffix) ==
    Len(suffix) <= Len(s) /\ SubSeq(s, Len(s) - Len(suffix) + 1, Len(s)) = suffix

str_contains(s, part) ==
    \E i \in 0..(Len(s) - Len(part)) : SubSeq(s, i + 1, i + Len(part)) = part

compare_start_with(first, second) ==
    IF second.t = "string" THEN PBool(str_starts_with(second.s, first)) ELSE PBool(FALSE)

compare_end_with(first, second) ==
    IF second.t = "string" THEN PBool(str_ends_with(second.s, first)) ELSE PBool(FALSE)

compare_contain(first, second) ==
    IF second.t = "string" THEN PBool(str_contains(second.s, first)) ELSE PBool(FALSE)

\* first.as_str().unwrap() panics when the operand is no string
compare_include(first, second) ==
    CASE second.t = "array" -> PBool(\E i \in 1..Len(second.items) : second.items[i] = first)
      [] second.t = "object" ->
            IF first.t = "string" THEN PBool(first.s \in DOMAIN second.fields) ELSE PAbort
      [] OTHER -> PBool(FALSE)

\* Regex::is_match for the regexes without metacharacters: an unanchored search
compare_match(first, second) ==
    IF second.t = "string" THEN PBool(str_contains(second.s, first)) ELSE PBool(FALSE)

compare_is_integer(second) == PBool(second.t = "i64")

compare_is_float(second) == PBool(second.t = "f64")

compare_is_boolean(second) == PBool(second.t = "bool")

compare_is_string(second) == PBool(second.t = "string")

compare_is_collection(second) == PBool(second.t \in {"array", "object"})

compare_exist(second) == PBool(second.t # "null")

\* compare_is_empty taking an empty string, or no value at all, for empty
compare_is_empty_or_blank(second) ==
    CASE second.t = "array" -> PBool(second.items = <<>>)
      [] second.t = "object" -> PBool(DOMAIN second.fields = {})
      [] second.t = "string" -> PBool(second.s = <<>>)
      [] second.t = "null" -> PBool(TRUE)
      [] OTHER -> PBool(FALSE)

compare_is_empty(second) ==
    CASE second.t = "array" -> PBool(second.items = <<>>)
      [] second.t = "object" -> PBool(DOMAIN second.fields = {})
      [] OTHER -> PBool(FALSE)

\* a compiled Predicate: value is the serde_json operand, num the Number operand
Predicate(f, value, num) == [f |-> f, value |-> value, num |-> num]

NoNumber == Integer(0)

Equal(v) == Predicate("Equal", v, NoNumber)

NotEqual(v) == Predicate("NotEqual", v, NoNumber)

GreaterThan(n) == Predicate("GreaterThan", Null, n)

GreaterThanOrEqual(n) == Predicate("GreaterThanOrEqual", Null, n)

LessThan(n) == Predicate("LessThan", Null, n)

LessThanOrEqual(n) == Predicate("LessThanOrEqual", Null, n)

Nullary(f) == Predicate(f, Null, NoNumber)

\* Predicate::apply sending each ordering predicate to the compare function of its
\* own name, without the swap
Predicate_apply_by_name(p, against) ==
    CASE p.f = "Equal" -> compare_eq(p.value, against)
      [] p.f = "NotEqual" -> compare_ne(p.value, against)
      [] p.f = "GreaterThan" -> compare_gt(p.num, against)
      [] p.f = "GreaterThanOrEqual" -> compare_gteq(p.num, against)
      [] p.f = "LessThan" -> compare_lt(p.num, against)
      [] p.f = "LessThanOrEqual" -> compare_lteq(p.num, against)
      [] p.f = "StartWith" -> compare_start_with(p.value.s, against)
      [] p.f = "EndWith" -> compare_end_with(p.value.s, against)
      [] p.f = "Contain" -> compare_contain(p.value.s, against)
      [] p.f = "Include" -> compare_include(p.value, against)
      [] p.f = "Match" -> compare_match(p.value.s, against)
      [] p.f = "IsInteger" -> compare_is_integer(against)
      [] p.f = "IsFloat" -> compare_is_float(against)
      [] p.f = "IsBoolean" -> compare_is_boolean(against)
      [] p.f = "IsString" -> compare_is_string(against)
      [] p.f = "IsCollection" -> compare_is_collection(against)
      [] p.f = "Exist" -> compare_exist(against)
      [] p.f = "IsEmpty" -> compare_is_empty(against)

Predicate_apply(p, against) ==
    CASE p.f = "Equal" -> compare_eq(p.value, against)
      [] p.f = "NotEqual" -> compare_ne(p.value, against)
      [] p.f = "GreaterThan" -> compare_lt(p.num, against)
      [] p.f = "GreaterThanOrEqual" -> compare_lteq(p.num, against)
      [] p.f = "LessThan" -> compare_gt(p.num, against)
      [] p.f = "LessThanOrEqual" -> compare_gteq(p.num, against)
      [] p.f = "StartWith" -> compare_start_with(p.value.s, against)
      [] p.f = "EndWith" -> compare_end_with(p.value.s, against)
      [] p.f = "Contain" -> compare_contain(p.value.s, against)
      [] p.f = "Include" -> compare_include(p.value, against)
      [] p.f = "Match" -> compare_match(p.value.s, against)
      [] p.f = "IsInteger" -> compare_is_integer(against)
      [] p.f = "IsFloat" -> compare_is_float(against)
      [] p.f = "IsBoolean" -> compare_is_boolean(against)
      [] p.f = "IsString" -> compare_is_string(against)
      [] p.f = "IsCollection" -> compare_is_collection(against)
      [] p.f = "Exist" -> compare_exist(against)
      [] p.f = "IsEmpty" -> compare_is_empty(against)

\* ------------------------------------------------------------------ requests

\* headers: name -> [text, s] for the headers the request carries (text: the bytes are
\* visible ASCII, so HeaderValue::to_str succeeds); query: the raw query string, as
\* absent / one serde_qs parses into params / one it rejects; cookies: name -> value
Request(path, method, headers, query, cookies) ==
    [path |-> path, method |-> method, headers |-> headers, query |-> query,
     cookies |-> cookies]

NoQuery == [state |-> "none", params |-> NoFields]

ParsedQuery(params) == [state |-> "ok", params |-> params]

MalformedQuery == [state |-> "malformed", params |-> NoFields]

\* ------------------------------------------------------------------ asserts/query.rs

Query(q, name) == [q |-> q, name |-> name]

QOk(v) == [tag |-> "Ok", val |-> v]

QErr == [tag |-> "Err", val |-> Null]

QAbort == [tag |-> "Abort", val |-> Null]

\* Cookie::value_trimmed: the value without one pair of surrounding double quotes
Cookie_value_trimmed(s) ==
    IF Len(s) >= 2 /\ s[1] = DQ /\ s[Len(s)] = DQ THEN SubSeq(s, 2, Len(s) - 1) ELSE s

\* a query that takes a missing header, cookie or parameter for an error
Query_apply_strict(query, req) ==
    CASE query.q = "Path" -> QOk(String(req.path))
      [] query.q = "Header" ->
            IF query.name \in DOMAIN req.headers /\ req.headers[query.name].text
            THEN QOk(String(req.headers[query.name].s))
            ELSE QErr
      [] query.q = "Cookie" ->
            IF query.name \in DOMAIN req.cookies
            THEN QOk(String(Cookie_value_trimmed(req.cookies[query.name])))
            ELSE QErr
      [] query.q = "QueryParam" ->
            IF req.query.state = "ok" /\ query.name \in DOMAIN req.query.params
            THEN QOk(req.query.params[query.name])
            ELSE QErr
      [] OTHER -> QAbort

Query_apply(query, req) ==
    CASE query.q = "Path" -> QOk(String(req.path))
      [] query.q = "Header" ->
            IF query.name \in DOMAIN req.headers
            THEN IF req.headers[query.name].text
                 THEN QOk(String(req.headers[query.name].s))
                 ELSE QErr
            ELSE QOk(Null)
      [] query.q = "Cookie" ->
            IF query.name \in DOMAIN req.cookies
            THEN QOk(String(Cookie_value_trimmed(req.cookies[query.name])))
            ELSE QOk(Null)
      [] query.q = "QueryParam" ->
            IF req.query.state = "none" THEN QOk(Null)
            ELSE IF req.query.state = "malformed" THEN QErr
            ELSE IF query.name \in DOMAIN req.query.params
                 THEN QOk(req.query.params[query.name])
                 ELSE QOk(Null)
      \* Query::Body and Query::Jsonpath are todo!()
      [] OTHER -> QAbort

\* ------------------------------------------------------------------ asserts/mod.rs

AssertOf(query, predicate, not) == [query |-> query, predicate |-> predicate, not |-> not]

AOk(b) == [tag |-> "Ok", b |-> b]

AErr == [tag |-> "Err", b |-> FALSE]

AAbort == [tag |-> "Abort", b |-> FALSE]

Assert_apply_unnegated(a, req) ==
    LET query_value == Query_apply(a.query, req)
    IN  CASE query_value.tag = "Err" -> AErr
          [] query_value.tag = "Abort" -> AAbort
          [] OTHER ->
                LET assertion_result == Predicate_apply(a.predicate, query_value.val)
                IN  IF assertion_result.abort THEN AAbort
                    ELSE AOk(assertion_result.b)

Assert_apply(a, req) ==
    LET query_value == Query_apply(a.query, req)
    IN  CASE query_value.tag = "Err" -> AErr
          [] query_value.tag = "Abort" -> AAbort
          [] OTHER ->
                LET assertion_result == Predicate_apply(a.predicate, query_value.val)
                IN  IF assertion_result.abort THEN AAbort
                    ELSE AOk(IF a.not THEN ~assertion_result.b ELSE assertion_result.b)

\* ------------------------------------------------------------------ entry.rs

NoBody == [some |-> FALSE, value |-> SoTString(<<>>)]

SomeBody(sot) == [some |-> TRUE, value |-> sot]

\* a compiled (HeaderName, StringOrTemplate) pair
HeaderLine(name, value) == [name |-> name, value |-> value]

Entry(path, method, asserts, status_code, headers, body) ==
    [path |-> path, method |-> method, asserts |-> asserts,
     status_code |-> status_code, headers |-> headers, body |-> body]

\* Iterator::all over the asserts: stops at the first assert that is not Ok(true);
\* a panicking assert unwinds through it
RECURSIVE matches_from(_, _, _)
matches_from(asserts, req, i) ==
    IF i > Len(asserts) THEN "match"
    ELSE LET r == Assert_apply(asserts[i], req)
         IN  CASE r.tag = "Abort" -> "abort"
               [] r.tag = "Ok" /\ r.b -> matches_from(asserts, req, i + 1)
               [] OTHER -> "nomatch"

RECURSIVE matches_lenient_from(_, _, _)
matches_lenient_from(asserts, req, i) ==
    IF i > Len(asserts) THEN "match"
    ELSE LET r == Assert_apply(asserts[i], req)
         IN  CASE r.tag = "Abort" -> "abort"
               [] r.tag = "Ok" /\ ~r.b -> "nomatch"
               [] OTHER -> matches_lenient_from(asserts, req, i + 1)

matches_lenient(entry, req) == matches_lenient_from(entry.asserts, req, 1)

matches(entry, req) == matches_from(entry.asserts, req, 1)

Response(status, headers, body) == [status |-> status, headers |-> headers, body |-> body]

NOT_FOUND == 404

INTERNAL_SERVER_ERROR == 500

METHOD_NOT_ALLOWED == 405

\* http::HeaderValue::from_str: control characters are rejected
HeaderValue_from_str_ok(v) == \A i \in 1..Len(v) : v[i] \notin ControlChars

HeaderMap_insert(map, name, value) ==
    IF \E i \in 1..Len(map) : map[i][1] = name
    THEN [i \in 1..Len(map) |-> IF map[i][1] = name THEN <<name, value>> ELSE map[i]]
    ELSE Append(map, <<name, value>>)

\* http::HeaderMap::append, the map as the sequence its iterator yields: a new name
\* goes last, a further value of a known name goes after that name's last value
HeaderMap_append(map, name, value) ==
    IF \E i \in 1..Len(map) : map[i][1] = name
    THEN LET last == CHOOSE i \in 1..Len(map) :
                        /\ map[i][1] = name
                        /\ \A j \in (i + 1)..Len(map) : map[j][1] # name
         IN  SubSeq(map, 1, last) \o <<<<name, value>>>> \o SubSeq(map, last + 1, Len(map))
    ELSE Append(map, <<name, value>>)

TemplateErrorBody(e) == <<"template error: ">> \o e

InternalErrorText(e) == <<"internal error: ">> \o e

UnknownVariableText(n) == <<"unknown variable: ", n>>

InvalidHeaderValueText == <<"failed to parse header value">>

\* the headers of handler(): Ok(map) or the first Err
RECURSIVE render_headers(_, _, _)
render_headers(headers, i, map) ==
    IF i > Len(headers) THEN [ok |-> TRUE, map |-> map, err |-> <<>>]
    ELSE LET header_value == StringOrTemplate_execute(headers[i].value)
         IN  IF ~header_value.ok
             THEN [ok |-> FALSE, map |-> <<>>,
                   err |-> InternalErrorText(UnknownVariableText(header_value.err))]
             ELSE IF ~HeaderValue_from_str_ok(header_value.val)
                  THEN [ok |-> FALSE, map |-> <<>>,
                        err |-> InternalErrorText(InvalidHeaderValueText)]
                  ELSE render_headers(headers, i + 1,
                                      HeaderMap_append(map, headers[i].name, header_value.val))

handler_keeps_headers(entry) ==
    LET headers == render_headers(entry.headers, 1, <<>>)
    IN  IF ~headers.ok
        THEN Response(INTERNAL_SERVER_ERROR, <<>>, TemplateErrorBody(headers.err))
        ELSE IF entry.body.some
             THEN LET b == StringOrTemplate_execute(entry.body.value)
                  IN  IF b.ok
                      THEN Response(entry.status_code, headers.map, b.val)
                      ELSE Response(INTERNAL_SERVER_ERROR, headers.map,
                                    TemplateErrorBody(UnknownVariableText(b.err)))
             ELSE Response(entry.status_code, headers.map, <<>>)

handler(entry) ==
    LET headers == render_headers(entry.headers, 1, <<>>)
    IN  IF ~headers.ok
        THEN Response(INTERNAL_SERVER_ERROR, <<>>, TemplateErrorBody(headers.err))
        ELSE IF entry.body.some
             THEN LET b == StringOrTemplate_execute(entry.body.value)
                  IN  IF b.ok
                      THEN Response(entry.status_code, headers.map, b.val)
                      ELSE Response(INTERNAL_SERVER_ERROR, <<>>,
                                    TemplateErrorBody(UnknownVariableText(b.err)))
             ELSE Response(entry.status_code, headers.map, <<>>)

\* which return of handler() was taken: the rendered response or a template error
handler_outcome(entry) ==
    LET headers == render_headers(entry.headers, 1, <<>>)
    IN  IF ~headers.ok THEN "TemplateError"
        ELSE IF entry.body.some /\ ~StringOrTemplate_execute(entry.body.value).ok
             THEN "TemplateError"
             ELSE "Served"

\* ------------------------------------------------------------------ AST of asserts

\* a query of the AST: its kind and, where it has one, its name or expression template
AstQuery(kind, name) == [kind |-> kind, name |-> name]

NoTemplate == Template(NoDelimiter, <<>>)

\* a predicate value of the AST: a string template, a number, a boolean, null, a regex,
\* or one of the kinds the compiler takes no operand from (t = "Expression")
AstString(template) == [t |-> "String", template |-> template, num |-> Integer(0), b |-> FALSE]

AstNumber(num) == [t |-> "Number", template |-> NoTemplate, num |-> num, b |-> FALSE]

AstBool(b) == [t |-> "Bool", template |-> NoTemplate, num |-> Integer(0), b |-> b]

AstNull == [t |-> "Null", template |-> NoTemplate, num |-> Integer(0), b |-> FALSE]

\* the regex is kept as its pattern, in the template field
AstRegex(pattern) ==
    [t |-> "Regex", template |-> Template(NoDelimiter, <<StringElement(pattern)>>),
     num |-> Integer(0), b |-> FALSE]

AstExpression == [t |-> "Expression", template |-> NoTemplate, num |-> Integer(0), b |-> FALSE]

AstPredicate(not, func, value) == [not |-> not, func |-> func, value |-> value]

AstAssert(query, predicate) == [query |-> query, predicate |-> predicate]

\* a 'key: value' line, both sides templates
AstHeader(key, value) == [key |-> key, value |-> value]

\* ------------------------------------------------------------------ compiling asserts

\* Result of a conversion: Ok with the value, Err with the error, or a panic
ROk(v) == [tag |-> "Ok", val |-> v, err |-> ""]

RErr(v, e) == [tag |-> "Err", val |-> v, err |-> e]

RAbort(v) == [tag |-> "Abort", val |-> v, err |-> ""]

try_into_serde_value(value) ==
    CASE value.t = "String" ->
            ROk(String(possibly_trim_surrounding_quotes(Template_encoded(value.template))))
      [] value.t = "Number" ->
            CASE value.num.kind = "Float" -> ROk(F64(value.num.h))
              [] value.num.kind = "Integer" -> ROk(I64(value.num.h \div 2))
              [] OTHER -> RAbort(Null)
      [] value.t = "Bool" -> ROk(Bool(value.b))
      [] value.t = "Null" -> ROk(Null)
      [] OTHER -> RErr(Null, "invalid predicate value - unsupported type")

try_into_number(value) ==
    IF value.t = "Number" THEN ROk(value.num)
    ELSE RErr(NoNumber, "invalid predicate value - expected number")

try_into_string(value) ==
    IF value.t = "String" THEN ROk(Template_encoded(value.template))
    ELSE RErr(<<>>, "invalid predicate value - expected string")

try_into_regex(value) ==
    IF value.t = "Regex" THEN ROk(Template_encoded(value.template))
    ELSE RErr(<<>>, "invalid predicate value - expected regex")

NullaryFuncs ==
    {"IsInteger", "IsFloat", "IsBoolean", "IsString", "IsCollection", "Exist", "IsEmpty"}

\* the conversion of the operand, carried over to the predicate built from it
Predicate_from(r, p) == [tag |-> r.tag, val |-> p, err |-> r.err]

Predicate_try_from(value) ==
    LET f == value.func
        v == value.value
    IN  CASE f \in {"Equal", "NotEqual", "Include"} ->
                LET r == try_into_serde_value(v) IN Predicate_from(r, Predicate(f, r.val, NoNumber))
          [] f \in NumericPredicateFuncs ->
                LET r == try_into_number(v) IN Predicate_from(r, Predicate(f, Null, r.val))
          [] f \in {"StartWith", "EndWith", "Contain"} ->
                LET r == try_into_string(v)
                IN  Predicate_from(r, Predicate(f, String(r.val), NoNumber))
          [] f = "Match" ->
                LET r == try_into_regex(v)
                IN  Predicate_from(r, Predicate(f, String(r.val), NoNumber))
          [] f \in NullaryFuncs -> ROk(Nullary(f))
          [] OTHER -> RErr(Nullary(f), "invalid predicate")

Query_try_from(value) ==
    CASE value.kind \in {"Path", "Body"} -> ROk(Query(value.kind, <<>>))
      [] value.kind \in {"Header", "Cookie", "Jsonpath", "QueryParam"} ->
            ROk(Query(value.kind, possibly_trim_surrounding_quotes(Template_encoded(value.name))))
      [] OTHER -> RErr(Query(value.kind, <<>>), "invalid query type")

NoAssert == AssertOf(Query("Path", <<>>), Nullary("Exist"), FALSE)

\* TryFrom<ast::Assert>: the query first, then the predicate
Assert_try_from(value) ==
    LET build(query, predicate) ==
            CASE query.tag # "Ok" -> [tag |-> query.tag, val |-> NoAssert, err |-> query.err]
              [] predicate.tag # "Ok" ->
                    [tag |-> predicate.tag, val |-> NoAssert, err |-> predicate.err]
              [] OTHER -> ROk(AssertOf(query.val, predicate.val, value.predicate.not))
    IN  build(Query_try_from(value.query), Predicate_try_from(value.predicate))

\* an implicit assert that is negated
Assert_from_header_negated(value) ==
    ROk(AssertOf(Query("Header", Template_encoded(value.key)),
                 Equal(String(Template_encoded(value.value))), TRUE))

\* TryFrom<ast::Header>: the implicit assert of a 'name: value' line of the request
Assert_from_header(value) ==
    ROk(AssertOf(Query("Header", Template_encoded(value.key)),
                 Equal(String(Template_encoded(value.value))), FALSE))

\* ------------------------------------------------------------------ entry.rs: compiling an entry

\* the body of the AST: no body, or Bytes of one of seven kinds; a string body holds a
\* template, a JSON or XML body its source text
AstBody(kind, template, text) == [kind |-> kind, template |-> template, text |-> text]

AstNoBody == AstBody("None", NoTemplate, <<>>)

AstEntry(method, path, status, headers, body, asserts, req_headers) ==
    [method |-> method, path |-> path, status |-> status, headers |-> headers,
     body |-> body, asserts |-> asserts, req_headers |-> req_headers]

\* the methods http::Method::from_str knows by name (CONNECT left aside), a token it
\* takes for an extension method, and the tokens it rejects
StandardMethods == {"GET", "POST", "PUT", "DELETE", "PATCH", "HEAD", "OPTIONS", "TRACE"}

ExtensionMethods == {"FOO", "BAR"}

Method_from_str_ok(token) == token \in StandardMethods \cup ExtensionMethods

\* MethodFilter::try_from(Method): the standard methods have a filter, others none
\* a method filter for every method whatever
MethodFilter_try_from_any(method) == method = method

MethodFilter_try_from_ok(method) == method \in StandardMethods

StatusCode_from_u16_ok(value) == value >= 100 /\ value < 1000

\* HeaderName::from_str: a non-empty name of token characters
HeaderName_from_str_ok(name) ==
    name # <<>> /\ \A i \in 1..Len(name) : name[i] \notin {" ", DQ, DEL}

\* EntryCompilationError, and the error::Error around it
NoError == [error |-> "", kind |-> "", method |-> "", status |-> 0, inner |-> ""]

InvalidMethod(token) == [NoError EXCEPT !.kind = "InvalidMethod", !.method = token]

InvalidStatusCode(value) == [NoError EXCEPT !.kind = "InvalidStatusCode", !.status = value]

InvalidHeaderName == [NoError EXCEPT !.kind = "InvalidHeaderName"]

AssertCompilationError(e) == [NoError EXCEPT !.kind = "AssertCompilationError", !.inner = e]

compile_body(body) ==
    CASE body.kind \in {"Json", "Xml"} -> ROk(SomeBody(SoTString(body.text)))
      [] body.kind \in {"MultilineString", "OnelineString"} ->
            ROk(SomeBody(from_ast_template(body.template)))
      [] body.kind = "None" -> ROk(NoBody)
      \* Base64, File, Hex: todo!()
      [] OTHER -> RAbort(NoBody)

\* the asserts of the [Asserts] section, then the implicit asserts of the header lines
chained_assert(entry, i) ==
    IF i <= Len(entry.asserts) THEN Assert_try_from(entry.asserts[i])
    ELSE Assert_from_header(entry.req_headers[i - Len(entry.asserts)])

\* collect::<Result<Vec<_>, _>>(): stops at the first conversion that is not Ok
RECURSIVE collect_asserts(_, _, _)
collect_asserts(entry, i, acc) ==
    IF i > Len(entry.asserts) + Len(entry.req_headers) THEN ROk(acc)
    ELSE LET push(a) ==
                 IF a.tag = "Ok" THEN collect_asserts(entry, i + 1, Append(acc, a.val))
                 ELSE [tag |-> a.tag, val |-> <<>>, err |-> a.err]
         IN  push(chained_assert(entry, i))

NoEntry == Entry(<<>>, "", <<>>, 0, <<>>, NoBody)

EOk(entry) == [tag |-> "Ok", val |-> entry, err |-> NoError]

EErr(e) == [tag |-> "Err", val |-> NoEntry, err |-> e]

EAbort == [tag |-> "Abort", val |-> NoEntry, err |-> NoError]

Entry_try_from(entry) ==
    LET bad == {i \in 1..Len(entry.headers) :
                    ~HeaderName_from_str_ok(Template_encoded(entry.headers[i].key))}
        headers == [i \in 1..Len(entry.headers) |->
                        HeaderLine(Template_encoded(entry.headers[i].key),
                                   from_ast_template(entry.headers[i].value))]
        build(body, asserts) ==
            CASE ~Method_from_str_ok(entry.method) -> EErr(InvalidMethod(entry.method))
              [] ~StatusCode_from_u16_ok(entry.status) -> EErr(InvalidStatusCode(entry.status))
              [] bad # {} -> EErr(InvalidHeaderName)
              [] body.tag = "Abort" -> EAbort
              [] asserts.tag = "Abort" -> EAbort
              [] asserts.tag = "Err" -> EErr(AssertCompilationError(asserts.err))
              [] OTHER -> EOk(Entry(entry.path, entry.method, asserts.val, entry.status,
                                    headers, body.val))
    IN  build(compile_body(entry.body), collect_asserts(entry, 1, <<>>))

\* ------------------------------------------------------------------ lib.rs: compile_ast

RouteKey(entry) == <<entry.path, entry.method>>

\* a grouping that puts each entry at the front of its bucket
RECURSIVE routes_to_entries_prepending(_, _, _)
routes_to_entries_prepending(entries, i, map) ==
    IF i > Len(entries) THEN map
    ELSE LET k == RouteKey(entries[i])
         IN  routes_to_entries_prepending(entries, i + 1,
                IF k \in DOMAIN map
                THEN [map EXCEPT ![k] = <<entries[i]>> \o @]
                ELSE [x \in DOMAIN map \cup {k} |->
                        IF x = k THEN <<entries[i]>> ELSE map[x]])

\* the loop that groups the compiled entries by (path, method), in entry order
RECURSIVE routes_to_entries_from(_, _, _)
routes_to_entries_from(entries, i, map) ==
    IF i > Len(entries) THEN map
    ELSE LET k == RouteKey(entries[i])
         IN  routes_to_entries_from(entries, i + 1,
                IF k \in DOMAIN map
                THEN [map EXCEPT ![k] = Append(@, entries[i])]
                ELSE [x \in DOMAIN map \cup {k} |->
                        IF x = k THEN <<entries[i]>> ELSE map[x]])

routes_to_entries(entries) == routes_to_entries_from(entries, 1, [k \in {} |-> <<>>])

\* error::Error
EntryCompilationError(e) == [e EXCEPT !.error = "EntryCompilationError"]

Error_InvalidMethod(method) == [NoError EXCEPT !.error = "InvalidMethod", !.method = method]

NoRouter == [k \in {} |-> <<>>]

\* the router, and the keys in the order the loop over the hash map routed them
COk(r, order) == [tag |-> "Ok", router |-> r, routed |-> order, err |-> NoError]

CErr(e) == [tag |-> "Err", router |-> NoRouter, routed |-> <<>>, err |-> e]

CAbort == [tag |-> "Abort", router |-> NoRouter, routed |-> <<>>, err |-> NoError]

\* the orders in which a HashMap can hand out its keys
IterationOrders(keys) ==
    {o \in [1..Cardinality(keys) -> keys] :
        \A i, j \in 1..Cardinality(keys) : o[i] = o[j] => i = j}

\* a collect that drops the entries that do not compile
RECURSIVE collect_entries_skipping(_, _, _)
collect_entries_skipping(ast, i, acc) ==
    IF i > Len(ast) THEN [tag |-> "Ok", val |-> acc, err |-> NoError]
    ELSE LET e == Entry_try_from(ast[i])
         IN  collect_entries_skipping(ast, i + 1, IF e.tag = "Ok" THEN Append(acc, e.val) ELSE acc)

\* entries.into_iter().map(try_into).collect::<Result<Vec<_>, _>>(): stops at the
\* first entry that does not compile
RECURSIVE collect_entries(_, _, _)
collect_entries(ast, i, acc) ==
    IF i > Len(ast) THEN [tag |-> "Ok", val |-> acc, err |-> NoError]
    ELSE LET push(e) ==
                 IF e.tag = "Ok" THEN collect_entries(ast, i + 1, Append(acc, e.val))
                 ELSE [tag |-> e.tag, val |-> <<>>, err |-> e.err]
         IN  push(Entry_try_from(ast[i]))

\* the results compile_ast can give for a file. The loop over routes_to_entries runs in
\* the hash map's order, which differs from run to run: the keys are routed in that
\* order, and the loop returns at the first key whose method has no filter
compile_ast(ast) ==
    LET route(map, order) ==
            LET unfiltered == {i \in 1..Len(order) : ~MethodFilter_try_from_ok(order[i][2])}
            IN  IF unfiltered # {}
                THEN CErr(Error_InvalidMethod(
                        order[CHOOSE i \in unfiltered : \A j \in unfiltered : i <= j][2]))
                ELSE COk(map, order)
        routes(map) == {route(map, order) : order \in IterationOrders(DOMAIN map)}
        build(entries) ==
            CASE entries.tag = "Err" -> {CErr(EntryCompilationError(entries.err))}
              [] entries.tag = "Abort" -> {CAbort}
              [] OTHER -> routes(routes_to_entries(entries.val))
    IN  build(collect_entries(ast, 1, <<>>))

\* router.route(path, MethodRouter::new().on(filter, closure)) as axum resolves a
\* request: an unregistered path goes to the router's fallback; a registered path
\* goes to the closure of its method, a HEAD request to the GET closure when the path
\* has no HEAD closure, and any other method to the method router's fallback
RegisteredPaths(r) == {k[1] : k \in DOMAIN r}

AllowedMethods(r, path) == {k[2] : k \in {x \in DOMAIN r : x[1] = path}}

Router_resolve(r, req) ==
    IF req.path \notin RegisteredPaths(r)
    THEN [to |-> "fallback", key |-> <<req.path, req.method>>]
    ELSE IF <<req.path, req.method>> \in DOMAIN r
         THEN [to |-> "closure", key |-> <<req.path, req.method>>]
         ELSE IF req.method = "HEAD" /\ <<req.path, "GET">> \in DOMAIN r
              THEN [to |-> "closure", key |-> <<req.path, "GET">>]
              ELSE [to |-> "method_not_allowed", key |-> <<req.path, req.method>>]

\* the Allow header of the method router's fallback
AllowHeader(r, path) ==
    <<<< <<"allow">>,
         SelectSeq(<<"GET", "HEAD", "POST">>,
                   LAMBDA m : \/ m \in AllowedMethods(r, path)
                              \/ m = "HEAD" /\ "GET" \in AllowedMethods(r, path)) >>>>

NotFoundResponse == Response(NOT_FOUND, <<>>, <<>>)

NoResponse == Response(0, <<>>, <<>>)

NoRequest == Request(<<>>, "", [n \in {} |-> 0], NoQuery, [n \in {} |-> 0])

\* ------------------------------------------------------------------ the inputs

Hello == <<"/hello">>

OtherPath == <<"/other-path">>

XFoo == <<"x-foo">>

HeaderFooIsBar == AssertOf(Query("Header", XFoo), Equal(String(<<"bar">>)), FALSE)

HeaderFooIsNotBar == AssertOf(Query("Header", XFoo), Equal(String(<<"bar">>)), TRUE)

BodyExists == AssertOf(Query("Body", <<>>), Nullary("Exist"), FALSE)

AssertLists ==
    { <<>>, <<HeaderFooIsBar>>, <<HeaderFooIsNotBar>>, <<HeaderFooIsBar, BodyExists>> }

Literal(s) == from_ast_template(Template(NoDelimiter, <<StringElement(s)>>))

Quoted(d, s) == from_ast_template(Template(d, <<StringElement(s)>>))

WithVariable(s, n) ==
    from_ast_template(Template(NoDelimiter, <<StringElement(s), ExpressionElement(n)>>))

WithVariables(s, n, m) ==
    from_ast_template(Template(NoDelimiter,
        <<StringElement(s), ExpressionElement(n), StringElement(s), ExpressionElement(m)>>))

\* (status code, headers, body) of the responses the entries are drawn from
ResponseParts ==
    { \* static headers, one name twice, and a backtick-delimited body
      <<200, <<HeaderLine(<<"x-a">>, Literal(<<"1">>)),
               HeaderLine(<<"content-type">>, Literal(<<"text/plain">>)),
               HeaderLine(<<"x-a">>, Literal(<<"2">>))>>,
        SomeBody(Quoted(BT, <<"hello world">>))>>,
      \* a static header, then a header whose template refers to a variable
      <<201, <<HeaderLine(<<"x-a">>, Literal(<<"1">>)),
               HeaderLine(<<"x-b">>, WithVariable(<<"v=">>, "name"))>>,
        NoBody>>,
      \* a static header and a body that refers to a variable
      <<400, <<HeaderLine(<<"x-a">>, Literal(<<"1">>))>>,
        SomeBody(WithVariables(<<"hi ">>, "who", "where"))>>,
      \* a static header whose text holds a control character
      <<202, <<HeaderLine(<<"x-a">>, Literal(<<"1", DEL>>))>>, NoBody>> }

EntryMethods == {"GET", "POST"}

EntryPool ==
    { Entry(Hello, m, a, r[1], r[2], r[3]) :
        m \in EntryMethods, a \in AssertLists, r \in ResponseParts }

RECURSIVE SeqsUpTo(_, _)
SeqsUpTo(S, n) ==
    IF n = 0 THEN {<<>>}
    ELSE LET shorter == SeqsUpTo(S, n - 1)
         IN  shorter \cup {Append(q, x) : q \in {p \in shorter : Len(p) = n - 1}, x \in S}

EntryLists == SeqsUpTo(EntryPool, MaxEntries)

RequestMethods == {"GET", "POST", "HEAD"}

HeaderSets ==
    { [n \in {} |-> 0],
      [n \in {XFoo} |-> [text |-> TRUE, s |-> <<"bar">>]],
      [n \in {XFoo} |-> [text |-> TRUE, s |-> <<"baz">>]],
      [n \in {XFoo} |-> [text |-> FALSE, s |-> <<>>]] }

Requests ==
    { Request(p, m, h, NoQuery, [n \in {} |-> 0]) :
        p \in {Hello, OtherPath}, m \in RequestMethods, h \in HeaderSets }

\* ------------------------------------------------------------------ the dispatcher

NoCall == [fn |-> "none"]

Init ==
    /\ router \in {routes_to_entries(es) : es \in EntryLists}
    /\ pc = "idle"
    /\ request = NoRequest
    /\ idx = 0
    /\ bucket = <<>>
    /\ response = NoResponse
    /\ servedBy = 0
    /\ evals = 0
    /\ call = NoCall
    /\ result = NoCall

\* the transport hands a request to the router
Receive(r) ==
    /\ pc = "idle"
    /\ pc' = "Lookup"
    /\ request' = r
    /\ UNCHANGED <<router, idx, bucket, response, servedBy, evals, call, result>>

\* the router resolves (path, method)
Lookup ==
    /\ pc = "Lookup"
    /\ LET to == Router_resolve(router, request)
       IN  CASE to.to = "closure" ->
                  /\ pc' = "Scan"
                  /\ bucket' = router[to.key]
                  /\ idx' = 1
                  /\ UNCHANGED response
             [] to.to = "method_not_allowed" ->
                  /\ pc' = "MethodNotAllowed"
                  /\ response' = Response(METHOD_NOT_ALLOWED,
                                          AllowHeader(router, request.path), <<>>)
                  /\ UNCHANGED <<bucket, idx>>
             [] OTHER ->
                  /\ pc' = "NotFound"
                  /\ response' = NotFoundResponse
                  /\ UNCHANGED <<bucket, idx>>
    /\ UNCHANGED <<router, request, servedBy, evals, call, result>>

Scan_last_match ==
    /\ pc = "Scan"
    /\ idx <= Len(bucket)
    /\ evals' = evals + 1
    /\ LET asserts_passed == matches(bucket[idx], request)
           later == \E j \in (idx + 1)..Len(bucket) : matches(bucket[j], request) = "match"
       IN  CASE asserts_passed = "match" /\ ~later ->
                  /\ response' = handler(bucket[idx])
                  /\ servedBy' = idx
                  /\ pc' = handler_outcome(bucket[idx])
                  /\ UNCHANGED idx
             [] asserts_passed = "abort" ->
                  /\ pc' = "Aborted"
                  /\ UNCHANGED <<response, servedBy, idx>>
             [] OTHER ->
                  /\ idx' = idx + 1
                  /\ UNCHANGED <<response, servedBy, pc>>
    /\ UNCHANGED <<router, request, bucket, call, result>>

\* one turn of the closure's loop: entry.matches(&request), and entry.handler(request)
\* when it matched
Scan ==
    /\ pc = "Scan"
    /\ idx <= Len(bucket)
    /\ evals' = evals + 1
    /\ LET asserts_passed == matches(bucket[idx], request)
       IN  CASE asserts_passed = "match" ->
                  /\ response' = handler(bucket[idx])
                  /\ servedBy' = idx
                  /\ pc' = handler_outcome(bucket[idx])
                  /\ UNCHANGED idx
             [] asserts_passed = "nomatch" ->
                  /\ idx' = idx + 1
                  /\ UNCHANGED <<response, servedBy, pc>>
             [] OTHER ->
                  /\ pc' = "Aborted"
                  /\ UNCHANGED <<response, servedBy, idx>>
    /\ UNCHANGED <<router, request, bucket, call, result>>

Exhausted_serves_last ==
    /\ pc = "Scan"
    /\ idx > Len(bucket)
    /\ pc' = "NotFound"
    /\ response' = handler(bucket[Len(bucket)])
    /\ UNCHANGED <<router, request, idx, bucket, servedBy, evals, call, result>>

\* the loop ran out of entries
Exhausted ==
    /\ pc = "Scan"
    /\ idx > Len(bucket)
    /\ pc' = "NotFound"
    /\ response' = NotFoundResponse
    /\ UNCHANGED <<router, request, idx, bucket, servedBy, evals, call, result>>

Terminal == {"NotFound", "MethodNotAllowed", "Served", "TemplateError", "Aborted"}

\* the response is handed to the transport (or the handler panicked); the next request may come
Reply ==
    /\ pc \in Terminal
    /\ pc' = "idle"
    /\ request' = NoRequest
    /\ idx' = 0
    /\ bucket' = <<>>
    /\ response' = NoResponse
    /\ servedBy' = 0
    /\ evals' = 0
    /\ UNCHANGED <<router, call, result>>

Next ==
    \/ \E r \in Requests : Receive(r)
    \/ Lookup
    \/ Scan
    \/ Exhausted
    \/ Reply

Spec == Init /\ [][Next]_vars

\* ------------------------------------------------------------------ properties of the dispatcher

RequestKey == <<request.path, request.method>>

BucketExists == RequestKey \in DOMAIN router

Rendered == pc \in {"Served", "TemplateError"}

\* the first entry of a bucket that matches req, 0 when none does or the scan dies first
RECURSIVE FirstMatch(_, _, _)
FirstMatch(entries, req, i) ==
    IF i > Len(entries) THEN 0
    ELSE LET every == \A j \in 1..Len(entries[i].asserts) :
                          Assert_apply(entries[i].asserts[j], req) = AOk(TRUE)
             dies == \E j \in 1..Len(entries[i].asserts) :
                          /\ Assert_apply(entries[i].asserts[j], req).tag = "Abort"
                          /\ \A k \in 1..(j - 1) :
                                Assert_apply(entries[i].asserts[k], req) = AOk(TRUE)
         IN  IF every THEN i ELSE IF dies THEN 0 ELSE FirstMatch(entries, req, i + 1)

\* C1: first match wins. When the (path, method) bucket of the request exists and a
\* response was built by an entry, that entry is the first one of the bucket, in
\* declaration order, whose asserts all evaluate to Ok(true): every earlier entry failed
\* to match, and a later entry that would match too is not used. Conversely the first
\* such entry of the bucket is the one that answers.
C1_FirstMatchWins ==
    (pc \in Terminal /\ BucketExists) =>
        LET entries == router[RequestKey]
            first == FirstMatch(entries, request, 1)
        IN  /\ Rendered =>
                /\ servedBy \in 1..Len(entries)
                /\ \A j \in 1..Len(entries[servedBy].asserts) :
                      Assert_apply(entries[servedBy].asserts[j], request) = AOk(TRUE)
                /\ \A i \in 1..(servedBy - 1) :
                      \E j \in 1..Len(entries[i].asserts) :
                          Assert_apply(entries[i].asserts[j], request) # AOk(TRUE)
                /\ response = handler(entries[servedBy])
            /\ first # 0 => (Rendered /\ servedBy = first)

\* C1 witness: the first entry answered although the second, a different entry, matches too
C1_Witness ==
    /\ pc = "Served"
    /\ BucketExists
    /\ Len(bucket) = 2
    /\ servedBy = 1
    /\ matches(bucket[2], request) = "match"
    /\ handler(bucket[2]) # response

\* C2: when the bucket exists and every entry in it fails to match the request (one of
\* its asserts is false or an error), the answer is 404 with no headers and an empty body.
C2_AllFailNotFound ==
    (pc \in Terminal /\ BucketExists
        /\ \A i \in 1..Len(router[RequestKey]) :
              matches(router[RequestKey][i], request) = "nomatch")
    => /\ pc = "NotFound"
       /\ response.status = 404
       /\ response.headers = <<>>
       /\ response.body = <<>>

\* C2 witness: a bucket of two entries, one skipped on a false assert or an error
C2_Witness ==
    /\ pc = "NotFound"
    /\ BucketExists
    /\ Len(bucket) = 2
    /\ evals = 2
    /\ XFoo \in DOMAIN request.headers
    /\ ~request.headers[XFoo].text
    /\ bucket[1].asserts # bucket[2].asserts

\* C3 (as claimed): a request whose (path, method) pair is not in the dispatch table,
\* also when the path is registered under another method only, is answered 404 with
\* no headers and an empty body.
C3_AbsentPairNotFound ==
    (pc \in Terminal /\ ~BucketExists) =>
        /\ response.status = 404
        /\ response.headers = <<>>
        /\ response.body = <<>>

\* C4: an entry matches iff every one of its asserts evaluates to Ok(true), so an entry
\* without asserts matches every request; an assert that is an error counts as one
\* that is false: the entry is skipped, the scan goes on with the next entry, and the
\* error never becomes a 500.
C4_MatchesIffAllOkTrue ==
    (pc # "idle") =>
        /\ \A k \in DOMAIN router : \A i \in 1..Len(router[k]) :
              LET e == router[k][i]
                  r == [j \in 1..Len(e.asserts) |-> Assert_apply(e.asserts[j], request)]
              IN  /\ (matches(e, request) = "match") <=> (\A j \in DOMAIN r : r[j] = AOk(TRUE))
                  /\ (\E j \in DOMAIN r :
                          /\ r[j] \in {AErr, AOk(FALSE)}
                          /\ \A n \in 1..(j - 1) : r[n] = AOk(TRUE))
                      => matches(e, request) = "nomatch"
                  /\ e.asserts = <<>> => matches(e, request) = "match"
        /\ (pc = "Scan" /\ idx <= Len(bucket)) =>
              \A i \in 1..(idx - 1) : matches(bucket[i], request) = "nomatch"
        /\ (pc \in Terminal /\ response.status = 500) =>
              (pc = "TemplateError" /\ matches(bucket[servedBy], request) = "match")

\* C4 witness: the first entry was skipped on an assert that is an error, and the scan
\* went on to the second entry, which answered
C4_Witness ==
    /\ pc = "Served"
    /\ servedBy = 2
    /\ \E j \in 1..Len(bucket[1].asserts) : Assert_apply(bucket[1].asserts[j], request) = AErr
    /\ bucket[2].asserts = <<>>

\* the entry whose handler built the response
ServingEntry == bucket[servedBy]

RenderedHeader(entry, i) == StringOrTemplate_execute(entry.headers[i].value)

AllTemplatesRender(entry) ==
    /\ \A i \in 1..Len(entry.headers) : RenderedHeader(entry, i).ok
    /\ entry.body.some => StringOrTemplate_execute(entry.body.value).ok

\* the compiled (name, template) pairs, rendered, in declaration order
DeclaredHeaders(entry) ==
    [i \in 1..Len(entry.headers) |-> <<entry.headers[i].name, RenderedHeader(entry, i).val>>]

ExpectedBody(entry) ==
    IF entry.body.some THEN StringOrTemplate_execute(entry.body.value).val ELSE <<>>

ValuesOf(hs, name) == SelectSeq(hs, LAMBDA h : h[1] = name)

\* the names of a header list, each once, in order of first appearance
RECURSIVE NamesInOrder(_)
NamesInOrder(hs) ==
    IF hs = <<>> THEN <<>>
    ELSE <<hs[1][1]>> \o NamesInOrder(SelectSeq(Tail(hs), LAMBDA h : h[1] # hs[1][1]))

Grouped(hs) ==
    \A i, k \in 1..Len(hs) : \A j \in i..k : hs[i][1] = hs[k][1] => hs[j][1] = hs[i][1]

\* C5 (as claimed): when the header templates and the body template of the matched entry
\* all render, the response is Served with the entry's status code, one rendered header
\* per compiled (name, template) pair in declaration order, and the rendered body, or
\* an empty body when the entry has none.
C5_RoundTripAsClaimed ==
    (Rendered /\ AllTemplatesRender(ServingEntry)) =>
        /\ pc = "Served"
        /\ response.status = ServingEntry.status_code
        /\ response.headers = DeclaredHeaders(ServingEntry)
        /\ response.body = ExpectedBody(ServingEntry)

\* C5 (amended): when the templates all render and every rendered header value is a
\* legal header value, the response is Served with the entry's status code, one
\* rendered header per compiled pair, the names in order of first declaration and the
\* values of a repeated name kept together in declaration order, and the rendered body
\* or an empty body; a rendered value that is no legal header value gives the 500
\* template-error response instead.
C5_RoundTrip ==
    (Rendered /\ AllTemplatesRender(ServingEntry)) =>
        LET declared == DeclaredHeaders(ServingEntry)
            legal == \A i \in 1..Len(declared) : \A j \in 1..Len(declared[i][2]) :
                        declared[i][2][j] \notin ControlChars
        IN  IF legal
            THEN /\ pc = "Served"
                 /\ response.status = ServingEntry.status_code
                 /\ Len(response.headers) = Len(declared)
                 /\ \A i \in 1..Len(declared) :
                        ValuesOf(response.headers, declared[i][1])
                            = ValuesOf(declared, declared[i][1])
                 /\ NamesInOrder(response.headers) = NamesInOrder(declared)
                 /\ Grouped(response.headers)
                 /\ response.body = ExpectedBody(ServingEntry)
            ELSE /\ pc = "TemplateError"
                 /\ response.status = 500
                 /\ response.headers = <<>>

\* C5 witness: an entry with a repeated header name and a body was served
C5_Witness ==
    /\ pc = "Served"
    /\ Len(ServingEntry.headers) = 3
    /\ ~Grouped(DeclaredHeaders(ServingEntry))
    /\ Len(response.headers) = 3
    /\ response.body = <<"hello world">>

Contains(s, part) ==
    \E k \in 0..(Len(s) - Len(part)) : SubSeq(s, k + 1, k + Len(part)) = part

VariablesOf(t) == {t.elements[i].name : i \in {j \in 1..Len(t.elements) : t.elements[j].kind = "Expression"}}

TemplatesOf(entry) ==
    {entry.headers[i].value : i \in 1..Len(entry.headers)}
        \cup (IF entry.body.some THEN {entry.body.value} ELSE {})

\* C6: a template error is all or nothing. If a header template or the body template of
\* the matched entry fails to render, the response has status 500, no headers (those
\* rendered before the failure are dropped) and a body that holds the error message;
\* the entry's status code and headers are not in it, and no later entry is tried.
C6_TemplateErrorAllOrNothing ==
    (Rendered /\ ~AllTemplatesRender(ServingEntry)) =>
        /\ pc = "TemplateError"
        /\ response.status = 500
        /\ response.status # ServingEntry.status_code
        /\ response.headers = <<>>
        /\ Head(response.body) = "template error: "
        /\ \E sot \in TemplatesOf(ServingEntry) : \E n \in VariablesOf(sot.t) :
              Contains(response.body, <<"unknown variable: ", n>>)
        /\ evals = servedBy
        /\ idx = servedBy

\* C6 witness: the second header of the entry failed after its first header had
\* rendered, and the next entry of the bucket, which matches too, was not tried
C6_Witness ==
    /\ pc = "TemplateError"
    /\ Len(bucket) = 2
    /\ servedBy = 1
    /\ Len(ServingEntry.headers) = 2
    /\ RenderedHeader(ServingEntry, 1).ok
    /\ ~RenderedHeader(ServingEntry, 2).ok
    /\ matches(bucket[2], request) = "match"
    /\ response.headers = <<>>

FirstVariable(t) ==
    t.elements[CHOOSE i \in 1..Len(t.elements) :
                  /\ t.elements[i].kind = "Expression"
                  /\ \A j \in 1..(i - 1) : t.elements[j].kind # "Expression"].name

HoldsVariable(entry) == \E sot \in TemplatesOf(entry) : sot.kind = "Template"

\* C7: the context at request time is empty, so a compiled template with a variable
\* reference fails on every request with the unknown-variable error that names its first
\* identifier, and a matching entry that holds such a template answers with the 500
\* template-error response, never with its own status code.
C7_VariableAlwaysFails ==
    /\ \A k \in DOMAIN router : \A i \in 1..Len(router[k]) :
          \A sot \in TemplatesOf(router[k][i]) :
              sot.kind = "Template" =>
                  /\ VariablesOf(sot.t) # {}
                  /\ StringOrTemplate_execute(sot) = UnknownVariable(FirstVariable(sot.t))
    /\ (Rendered /\ HoldsVariable(ServingEntry)) =>
          /\ pc = "TemplateError"
          /\ response.status = 500
          /\ response.status # ServingEntry.status_code

\* C7 witness: a matching entry whose body template names two variables answered 500,
\* the message naming the first of them
C7_Witness ==
    /\ pc = "TemplateError"
    /\ ServingEntry.body.some
    /\ Cardinality(VariablesOf(ServingEntry.body.value.t)) = 2
    /\ response.body = <<"template error: ", "unknown variable: ", "who">>
    /\ XFoo \in DOMAIN request.headers

\* ------------------------------------------------------------------ unit level: templates

Idle ==
    /\ router = [k \in {} |-> <<>>]
    /\ pc = "unit"
    /\ request = NoRequest
    /\ idx = 0
    /\ bucket = <<>>
    /\ response = NoResponse
    /\ servedBy = 0
    /\ evals = 0

Atoms == {"a", DQ, BT}

Fragments == SeqsUpTo(Atoms, MaxStrLen)

Elements == {StringElement(f) : f \in Fragments} \cup {ExpressionElement("v")}

\* the parser keeps a delimiter out of the text it delimits (it is escaped there)
Templates ==
    { t \in { Template(d, els) : d \in {NoDelimiter, DQ, BT}, els \in SeqsUpTo(Elements, MaxElements) } :
        t.delimiter # NoDelimiter =>
            \A i \in 1..Len(t.elements) : \A j \in 1..Len(t.elements[i].encoded) :
                t.elements[i].encoded[j] # t.delimiter }

InitTemplate ==
    /\ Idle
    /\ call \in {[fn |-> "render", template |-> t] : t \in Templates}
    /\ result = NoCall

\* compile the template and execute what was compiled; beside it, execute the
\* structured template itself
Render ==
    /\ call.fn = "render"
    /\ result = NoCall
    /\ result' = [fn |-> "render",
                  compiled |-> from_ast_template(call.template),
                  fast |-> StringOrTemplate_execute(from_ast_template(call.template)),
                  structured |-> execute(call.template, EmptyContext)]
    /\ UNCHANGED <<dispatchVars, call>>

NextTemplate == Render

SpecTemplate == InitTemplate /\ [][NextTemplate]_vars

\* C8 (as claimed): the static-string fast path cannot be seen. For a template without
\* variable references, executing the StringOrTemplate::String that from_ast_template
\* makes gives the string that concatenating the template's literal fragments gives,
\* also when the literal text begins and ends with the same quote or backtick.
C8_FastPathInvisible ==
    (result # NoCall /\ call.fn = "render" /\ ~HasExpression(call.template)) =>
        /\ result.compiled.kind = "String"
        /\ result.fast = result.structured

\* ------------------------------------------------------------------ unit level: asserts

Queries ==
    { Query("Path", <<>>), Query("Header", XFoo), Query("Cookie", <<"sid">>),
      Query("QueryParam", <<"q">>), Query("Body", <<>>), Query("Jsonpath", <<"$.a">>) }

AssertPredicates ==
    { Equal(String(<<"bar">>)), NotEqual(String(<<"bar">>)), Nullary("Exist"),
      Nullary("IsString"), Nullary("IsEmpty"), GreaterThan(Integer(1)),
      LessThan(BigInteger) }

QueryStrings ==
    { NoQuery, MalformedQuery,
      ParsedQuery([n \in {<<"q">>} |-> String(<<"bar">>)]),
      ParsedQuery([n \in {<<"other">>} |-> String(<<"bar">>)]),
      ParsedQuery([n \in {<<"q">>} |-> Array(<<String(<<"bar">>)>>)]) }

CookieJars ==
    { [n \in {} |-> <<>>], [n \in {<<"sid">>} |-> <<"bar">>],
      [n \in {<<"sid">>} |-> <<DQ, "bar", DQ>>] }

AssertRequests ==
    { Request(Hello, "GET", h, q, c) : h \in HeaderSets, q \in QueryStrings, c \in CookieJars }

InitAssert ==
    /\ Idle
    /\ call \in {[fn |-> "Assert::apply", query |-> q, predicate |-> p, request |-> r] :
                    q \in Queries, p \in AssertPredicates, r \in AssertRequests}
    /\ result = NoCall

\* apply the assert to the request, once as written and once negated
ApplyAssert ==
    /\ call.fn = "Assert::apply"
    /\ result = NoCall
    /\ result' = [fn |-> "Assert::apply",
                  plain |-> Assert_apply(AssertOf(call.query, call.predicate, FALSE), call.request),
                  negated |-> Assert_apply(AssertOf(call.query, call.predicate, TRUE), call.request)]
    /\ UNCHANGED <<dispatchVars, call>>

NextAssert == ApplyAssert

SpecAssert == InitAssert /\ [][NextAssert]_vars

\* the requests on which the query cannot be applied: header bytes that are no text,
\* a query string that does not parse
QueryFails(q, req) ==
    \/ q.q = "Header" /\ q.name \in DOMAIN req.headers /\ ~req.headers[q.name].text
    \/ q.q = "QueryParam" /\ req.query.state = "malformed"

\* C9: Assert.apply is an error iff applying the query fails, whatever the negate flag (a
\* negated assert whose query fails is an error, not true); when the query gives a value
\* v, it is Ok(predicate.apply(v) XOR negate), so the negated assert is the negation of
\* the plain one.
C9_NegateInverts ==
    (result # NoCall /\ call.fn = "Assert::apply") =>
        LET q == Query_apply(call.query, call.request)
        IN  /\ (result.plain.tag = "Err") <=> QueryFails(call.query, call.request)
            /\ (result.negated.tag = "Err") <=> QueryFails(call.query, call.request)
            /\ (q.tag = "Ok" /\ ~Predicate_apply(call.predicate, q.val).abort) =>
                  /\ result.plain = AOk(Predicate_apply(call.predicate, q.val).b)
                  /\ result.negated = AOk(~Predicate_apply(call.predicate, q.val).b)
                  /\ result.negated.b = ~result.plain.b

\* C9 witness: a negated assert on a header whose bytes are no text came out an error
C9_Witness ==
    /\ result # NoCall
    /\ call.fn = "Assert::apply"
    /\ call.query = Query("Header", XFoo)
    /\ XFoo \in DOMAIN call.request.headers
    /\ ~call.request.headers[XFoo].text
    /\ call.predicate = Equal(String(<<"bar">>))
    /\ result.negated = AErr

\* ------------------------------------------------------------------ unit level: queries

InitQuery ==
    /\ Idle
    /\ call \in {[fn |-> "Query::apply", query |-> q, request |-> r] :
                    q \in Queries, r \in AssertRequests}
    /\ result = NoCall

ApplyQuery ==
    /\ call.fn = "Query::apply"
    /\ result = NoCall
    /\ result' = [fn |-> "Query::apply", r |-> Query_apply(call.query, call.request)]
    /\ UNCHANGED <<dispatchVars, call>>

NextQuery == ApplyQuery

SpecQuery == InitQuery /\ [][NextQuery]_vars

Queried(q) == result # NoCall /\ call.fn = "Query::apply" /\ call.query.q = q

\* the request's query string, as far as it parses, holds the queried name
HasParam == call.request.query.state = "ok" /\ call.query.name \in DOMAIN call.request.query.params

\* what C16 says of headers and cookies: null when the name is missing, the value as a
\* string when it is there (for a header: there and text)
C16_HeaderAndCookie ==
    /\ Queried("Header") =>
          /\ call.query.name \notin DOMAIN call.request.headers => result.r = QOk(Null)
          /\ ( /\ call.query.name \in DOMAIN call.request.headers
               /\ call.request.headers[call.query.name].text )
                => result.r = QOk(String(call.request.headers[call.query.name].s))
    /\ Queried("Cookie") =>
          /\ call.query.name \notin DOMAIN call.request.cookies => result.r = QOk(Null)
          /\ call.query.name \in DOMAIN call.request.cookies =>
                result.r.tag = "Ok" /\ result.r.val.t = "string"

\* C16 (as claimed): Header, Cookie and QueryParam queries return null, not an error,
\* whenever the named header, cookie or query parameter is missing from the request,
\* QueryParam also when there is no query string at all; they return the value as a
\* string when it is present and textual.
C16_MissingIsNullAsClaimed ==
    /\ C16_HeaderAndCookie
    /\ Queried("QueryParam") =>
          /\ ~HasParam => result.r = QOk(Null)
          /\ (HasParam /\ call.request.query.params[call.query.name].t = "string")
                => result.r = QOk(call.request.query.params[call.query.name])

\* C16 (amended): as above, except that a query parameter missing from the request
\* gives null only when there is no query string or the query string parses; a query
\* string that does not parse gives an error, the name being in it or not.
C16_MissingIsNull ==
    /\ C16_HeaderAndCookie
    /\ Queried("QueryParam") =>
          /\ call.request.query.state = "none" => result.r = QOk(Null)
          /\ (call.request.query.state = "ok" /\ ~HasParam) => result.r = QOk(Null)
          /\ call.request.query.state = "malformed" => result.r = QErr
          /\ (HasParam /\ call.request.query.params[call.query.name].t = "string")
                => result.r = QOk(call.request.query.params[call.query.name])

\* C16 witness: a parameter asked of a query string that parses and holds only another
\* name came back null
C16_Witness ==
    /\ Queried("QueryParam")
    /\ call.request.query.state = "ok"
    /\ ~HasParam
    /\ result.r = QOk(Null)

\* ------------------------------------------------------------------ unit level: predicates

Operands ==
    {Integer(n) : n \in -MaxNum..MaxNum} \cup {Float(h) : h \in (-2 * MaxNum)..(2 * MaxNum)}
        \cup {BigInteger}

NumericPredicates ==
    {GreaterThan(n) : n \in Operands} \cup {GreaterThanOrEqual(n) : n \in Operands}
        \cup {LessThan(n) : n \in Operands} \cup {LessThanOrEqual(n) : n \in Operands}

Subjects ==
    {I64(n) : n \in -MaxNum..MaxNum} \cup {F64(h) : h \in (-2 * MaxNum)..(2 * MaxNum)}
        \cup { Null, String(<<"1">>), Bool(TRUE), Array(<<>>), Array(<<I64(1)>>),
               Object(NoFields), Object([k \in {<<"a">>} |-> I64(1)]) }

IncludePredicates ==
    {Predicate("Include", v, NoNumber) :
        v \in {String(<<"a">>), String(<<"1">>), I64(1), Bool(TRUE), Null}}

InitPredicate ==
    /\ Idle
    /\ call \in {[fn |-> "Predicate::apply", predicate |-> p, against |-> v] :
                    p \in NumericPredicates \cup IncludePredicates, v \in Subjects}
    /\ result = NoCall

ApplyPredicate ==
    /\ call.fn = "Predicate::apply"
    /\ result = NoCall
    /\ result' = [fn |-> "Predicate::apply", r |-> Predicate_apply(call.predicate, call.against)]
    /\ UNCHANGED <<dispatchVars, call>>

NextPredicate == ApplyPredicate

SpecPredicate == InitPredicate /\ [][NextPredicate]_vars

\* the integers next to a value given in halves, by their defining inequalities
CeilOf(h) == CHOOSE c \in (-MaxNum - 1)..(MaxNum + 1) : 2 * c >= h /\ 2 * (c - 1) < h

FloorOf(h) == CHOOSE c \in (-MaxNum - 1)..(MaxNum + 1) : 2 * c <= h /\ 2 * (c + 1) > h

Applied(f) ==
    /\ result # NoCall
    /\ call.fn = "Predicate::apply"
    /\ call.predicate.f = f
    /\ call.predicate.num.kind # "BigInteger"
    /\ IsNumber(call.against)

SameKind ==
    \/ call.predicate.num.kind = "Integer" /\ call.against.t = "i64"
    \/ call.predicate.num.kind = "Float" /\ call.against.t = "f64"

\* operand and subject, in halves
P == call.predicate.num.h

A == call.against.h

\* C10 (as claimed): GreaterThan with operand P on a numeric subject A is true iff P < A
\* when both are of one kind, iff P < ceil(A) when P is an integer and A a float, and
\* iff ceil(P) < A when P is a float and A an integer.
C10_GreaterThanAsClaimed ==
    Applied("GreaterThan") =>
        result.r = PBool(CASE SameKind -> P < A
                           [] call.predicate.num.kind = "Integer" /\ ~SameKind ->
                                FloorOf(P) < CeilOf(A)
                           [] OTHER -> CeilOf(P) < FloorOf(A))

\* C10 (amended): GreaterThan with operand P on a numeric subject A is true iff P < A
\* when both are of one kind, iff P < ceil(A) when P is an integer and A a float, and
\* iff floor(P) < A when P is a float and A an integer.
C10_GreaterThan ==
    Applied("GreaterThan") =>
        result.r = PBool(CASE SameKind -> P < A
                           [] call.predicate.num.kind = "Integer" /\ ~SameKind ->
                                FloorOf(P) < CeilOf(A)
                           [] OTHER -> FloorOf(P) < FloorOf(A))

\* C10 witness: GreaterThan(0.5) on the integer 1, where floor and ceil part, is true
C10_Witness ==
    /\ Applied("GreaterThan")
    /\ call.predicate.num = Float(1)
    /\ call.against = I64(1)
    /\ result.r = PBool(TRUE)

\* C11 (as claimed): GreaterThanOrEqual with operand P on a numeric subject A is true iff
\* P <= A when both are of one kind, iff P <= floor(A) when P is an integer and A a
\* float, and iff floor(P) <= A when P is a float and A an integer.
C11_GreaterThanOrEqualAsClaimed ==
    Applied("GreaterThanOrEqual") =>
        result.r = PBool(CASE SameKind -> P <= A
                           [] call.predicate.num.kind = "Integer" /\ ~SameKind ->
                                FloorOf(P) <= FloorOf(A)
                           [] OTHER -> FloorOf(P) <= FloorOf(A))

\* C11 witness: GreaterThanOrEqual(1) on the float 0.5 is true, though 0.5 >= 1 is not
C11_Witness ==
    /\ Applied("GreaterThanOrEqual")
    /\ call.predicate.num = Integer(1)
    /\ call.against = F64(1)
    /\ result.r = PBool(TRUE)

\* C12: LessThan with operand P on a numeric subject A is true iff A < P when both are
\* of one kind, iff P > floor(A) when P is an integer and A a float, and iff
\* ceil(P) > A when P is a float and A an integer.
C12_LessThan ==
    Applied("LessThan") =>
        result.r = PBool(CASE SameKind -> A < P
                           [] call.predicate.num.kind = "Integer" /\ ~SameKind ->
                                FloorOf(P) > FloorOf(A)
                           [] OTHER -> CeilOf(P) > FloorOf(A))

\* C12 witnesses: LessThan(1) on the float 1.0 is false (the integer is compared with
\* floor(1.0) = 1); LessThan(0.5) on the integer 0 is true (ceil(0.5) = 1 > 0)
C12_Witness ==
    /\ Applied("LessThan")
    /\ \/ call.predicate.num = Integer(1) /\ call.against = F64(2)
             /\ result.r = PBool(FALSE)
       \/ call.predicate.num = Float(1) /\ call.against = I64(0)
             /\ result.r = PBool(TRUE)

\* C13: LessThanOrEqual with operand P on a numeric subject A is true iff A <= P when
\* both are of one kind, iff P >= floor(A) when P is an integer and A a float, and iff
\* ceil(P) >= A when P is a float and A an integer.
C13_LessThanOrEqual ==
    Applied("LessThanOrEqual") =>
        result.r = PBool(CASE SameKind -> A <= P
                           [] call.predicate.num.kind = "Integer" /\ ~SameKind ->
                                FloorOf(P) >= FloorOf(A)
                           [] OTHER -> CeilOf(P) >= FloorOf(A))

\* C13 witness: LessThanOrEqual(0) on the float 0.5 is true, floor(0.5) being 0
C13_Witness ==
    /\ Applied("LessThanOrEqual")
    /\ call.predicate.num = Integer(0)
    /\ call.against = F64(1)
    /\ result.r = PBool(TRUE)

\* C28: the strict ordering predicates are exact. For every integer or float operand P
\* and every integer or float subject A, of one kind or mixed, GreaterThan(P) on A is
\* true iff A > P and LessThan(P) on A is true iff A < P, as real numbers: the
\* rounding never changes the answer of a strict comparison.
C28_StrictExact ==
    /\ Applied("GreaterThan") => result.r = PBool(A > P)
    /\ Applied("LessThan") => result.r = PBool(A < P)

\* C28 witnesses: mixed kinds where the rounded value differs from the value.
\* GreaterThan(0) on 0.5 is true (0 < ceil(0.5)); LessThan(1) on 0.5 is true
\* (1 > floor(0.5)); GreaterThan(0.5) on 0 is false (floor(0.5) < 0 is not so)
C28_Witness ==
    \/ Applied("GreaterThan") /\ call.predicate.num = Integer(0) /\ call.against = F64(1)
          /\ result.r = PBool(TRUE)
    \/ Applied("LessThan") /\ call.predicate.num = Integer(1) /\ call.against = F64(1)
          /\ result.r = PBool(TRUE)
    \/ Applied("GreaterThan") /\ call.predicate.num = Float(1) /\ call.against = I64(0)
          /\ result.r = PBool(FALSE)

\* the ordering predicate that should hold exactly where p does not
Complement(p) ==
    CASE p.f = "LessThan" -> GreaterThanOrEqual(p.num)
      [] p.f = "GreaterThanOrEqual" -> LessThan(p.num)
      [] p.f = "GreaterThan" -> LessThanOrEqual(p.num)
      [] p.f = "LessThanOrEqual" -> GreaterThan(p.num)

\* C29 (as claimed): the ordering predicates partition the numeric subjects. For every
\* integer or float operand P and numeric subject A, exactly one of LessThan(P) and
\* GreaterThanOrEqual(P) is true on A, and exactly one of GreaterThan(P) and
\* LessThanOrEqual(P) is true on A.
C29_PartitionAsClaimed ==
    \A f \in NumericPredicateFuncs :
        Applied(f) =>
            result.r.b # Predicate_apply(Complement(call.predicate), call.against).b

\* C29 witness: LessThan(1) is true on 0.5, and so is GreaterThanOrEqual(1)
C29_Witness ==
    /\ Applied("LessThan")
    /\ call.predicate.num = Integer(1)
    /\ call.against = F64(1)
    /\ result.r = PBool(TRUE)
    /\ Predicate_apply(GreaterThanOrEqual(Integer(1)), F64(1)) = PBool(TRUE)

\* C14: a numeric-comparison predicate, whatever its operand (a big integer included),
\* applied to a subject that is no number returns false: no error, no abort.
C14_NonNumericIsFalse ==
    ( /\ result # NoCall
      /\ call.fn = "Predicate::apply"
      /\ call.predicate.f \in NumericPredicateFuncs
      /\ ~IsNumber(call.against) )
        => result.r = PBool(FALSE)

\* C14 witness: a comparison holding a big integer, which aborts on every number,
\* answered false on a string
C14_Witness ==
    /\ result # NoCall
    /\ call.fn = "Predicate::apply"
    /\ call.predicate = GreaterThanOrEqual(BigInteger)
    /\ call.against = String(<<"1">>)
    /\ result.r = PBool(FALSE)

Included == result # NoCall /\ call.fn = "Predicate::apply" /\ call.predicate.f = "Include"

\* C22 (as claimed): Include with a string, number, boolean or null operand returns a
\* boolean on every subject, false unless the subject is an array or an object; on an
\* array it is true iff the operand is one of the elements, and on an object with a
\* string operand iff the operand is one of the keys.
C22_IncludeTotalAsClaimed ==
    Included =>
        /\ ~result.r.abort
        /\ call.against.t \notin {"array", "object"} => ~result.r.b
        /\ call.against.t = "array" =>
              (result.r.b <=> \E i \in 1..Len(call.against.items) :
                                  call.against.items[i] = call.predicate.value)
        /\ (call.against.t = "object" /\ call.predicate.value.t = "string") =>
              (result.r.b <=> call.predicate.value.s \in DOMAIN call.against.fields)

\* C22 witness: Include with the number 1 applied to an object panics
C22_Witness ==
    /\ Included
    /\ call.predicate.value = I64(1)
    /\ call.against = Object([k \in {<<"a">>} |-> I64(1)])
    /\ result.r = PAbort

\* ------------------------------------------------------------------ unit level: quote trimming

TrimAtoms == {"a", SQ, DQ, BT}

TrimInputs == SeqsUpTo(TrimAtoms, MaxTrimLen)

InitTrim ==
    /\ Idle
    /\ call \in {[fn |-> "possibly_trim_surrounding_quotes", s |-> s] : s \in TrimInputs}
    /\ result = NoCall

Trim ==
    /\ call.fn = "possibly_trim_surrounding_quotes"
    /\ result = NoCall
    /\ result' = [fn |-> "possibly_trim_surrounding_quotes",
                  s |-> possibly_trim_surrounding_quotes(call.s)]
    /\ UNCHANGED <<dispatchVars, call>>

NextTrim == Trim

SpecTrim == InitTrim /\ [][NextTrim]_vars

Trimmed == result # NoCall /\ call.fn = "possibly_trim_surrounding_quotes"

\* the string is some text between two copies of one delimiter
Surrounded(s) == \E q \in {SQ, DQ, BT} : \E inner \in TrimInputs : s = <<q>> \o inner \o <<q>>

\* C15: quote trimming removes exactly one layer. A string of two or more characters
\* whose first and last character are the same delimiter (single quote, double quote,
\* backtick) comes back without that first and last character; every other string (no
\* delimiter, two different delimiters, a delimiter at one end, one character, empty)
\* comes back unchanged.
C15_TrimOneLayer ==
    Trimmed =>
        IF Surrounded(call.s)
        THEN \E q \in {SQ, DQ, BT} : call.s = <<q>> \o result.s \o <<q>>
        ELSE result.s = call.s

\* C15 witnesses: a string inside two layers of quotes keeps the inner layer; a string
\* between two different delimiters is left alone
C15_Witness ==
    /\ Trimmed
    /\ \/ call.s = <<DQ, DQ, DQ, DQ>> /\ result.s = <<DQ, DQ>>
       \/ call.s = <<SQ, "a", DQ>> /\ result.s = call.s

\* ------------------------------------------------------------------ unit level: compilation

AstLiteral(s) == Template(NoDelimiter, <<StringElement(s)>>)

AstQuoted(s) == Template(DQ, <<StringElement(s)>>)

\* header "x-foo" == "bar"
AstHeaderFooIsBar ==
    AstAssert(AstQuery("Header", AstQuoted(XFoo)),
              AstPredicate(FALSE, "Equal", AstString(AstQuoted(<<"bar">>))))

\* header "x-foo" greaterThan "bar": a number is expected
AstGreaterThanString ==
    AstAssert(AstQuery("Header", AstQuoted(XFoo)),
              AstPredicate(FALSE, "GreaterThan", AstString(AstQuoted(<<"bar">>))))

\* header "x-foo" == <an integer too big for i64>
AstEqualBigInteger ==
    AstAssert(AstQuery("Header", AstQuoted(XFoo)),
              AstPredicate(FALSE, "Equal", AstNumber(BigInteger)))

\* header "x-foo" greaterThan <an integer too big for i64>
AstGreaterThanBigInteger ==
    AstAssert(AstQuery("Header", AstQuoted(XFoo)),
              AstPredicate(FALSE, "GreaterThan", AstNumber(BigInteger)))

AstMethods == {"GET", "POST", "PUT", "DELETE", "PATCH", "HEAD", "OPTIONS", "FOO", "BAR", "G T"}

Defects == {"none", "status", "header", "assert", "bigint", "bigcmp"}

\* an entry for /hello that is sound except for its method and the one defect named
DefectiveEntry(method, defect) ==
    AstEntry(method, Hello,
             IF defect = "status" THEN 99 ELSE 200,
             <<AstHeader(AstLiteral(IF defect = "header" THEN <<"x", " ", "a">> ELSE <<"x-a">>),
                         AstLiteral(<<"1">>))>>,
             AstBody("OnelineString", AstLiteral(<<"hello">>), <<>>),
             CASE defect = "assert" -> <<AstGreaterThanString>>
               [] defect = "bigint" -> <<AstEqualBigInteger>>
               [] defect = "bigcmp" -> <<AstGreaterThanBigInteger>>
               [] OTHER -> <<AstHeaderFooIsBar>>,
             <<>>)

\* every method in a sound entry, and each defect under one accepted and one extension method
AstEntryPool ==
    {DefectiveEntry(m, "none") : m \in AstMethods}
        \cup {DefectiveEntry(m, d) : m \in {"GET", "FOO"}, d \in Defects \ {"none"}}

AstFiles == SeqsUpTo(AstEntryPool, MaxEntries)

InitCompile ==
    /\ Idle
    /\ call \in {[fn |-> "compile_ast", ast |-> f] : f \in AstFiles}
    /\ result = NoCall

Compile ==
    /\ call.fn = "compile_ast"
    /\ result = NoCall
    /\ \E r \in compile_ast(call.ast) : result' = [fn |-> "compile_ast", r |-> r]
    /\ UNCHANGED <<dispatchVars, call>>

NextCompile == Compile

SpecCompile == InitCompile /\ [][NextCompile]_vars

Compiled == result # NoCall /\ call.fn = "compile_ast"

\* the entries of the file that fail to compile, and those whose compilation panics
Failing == {i \in 1..Len(call.ast) : Entry_try_from(call.ast[i]).tag = "Err"}

Panicking == {i \in 1..Len(call.ast) : Entry_try_from(call.ast[i]).tag = "Abort"}

FirstFailing == CHOOSE i \in Failing : \A j \in Failing : i <= j

\* the entries the router holds, over all its buckets
RouterSize(r) == LET Sum[S \in SUBSET DOMAIN r] ==
                        IF S = {} THEN 0
                        ELSE LET k == CHOOSE x \in S : TRUE IN Len(r[k]) + Sum[S \ {k}]
                 IN  Sum[DOMAIN r]

\* the entries that compile but whose method has no method filter
Unfiltered ==
    {i \in 1..Len(call.ast) :
        /\ Entry_try_from(call.ast[i]).tag = "Ok"
        /\ ~MethodFilter_try_from_ok(call.ast[i].method)}

\* the error an entry is refused with, at its own compilation or at the router's
RefusalOf(i) ==
    IF i \in Failing THEN CErr(EntryCompilationError(Entry_try_from(call.ast[i]).err))
    ELSE CErr(Error_InvalidMethod(call.ast[i].method))

FirstRefused == CHOOSE i \in Failing \cup Unfiltered : \A j \in Failing \cup Unfiltered : i <= j

\* C17 (as claimed): compilation is fail-fast and atomic. A router comes back only if
\* every entry of the file compiles; if an entry fails (invalid method, status code,
\* header name or assert), the result is the error of the first failing entry in
\* declaration order, and no router.
C17_FailFastAtomicAsClaimed ==
    (Compiled /\ Panicking = {}) =>
        /\ result.r.tag = "Ok" => Failing \cup Unfiltered = {}
        /\ Failing \cup Unfiltered # {} =>
              result.r = RefusalOf(FirstRefused) /\ result.r.router = NoRouter

\* C17 (amended): a router comes back only if every entry compiles and every method has
\* a method filter, and it then holds all the entries; otherwise the result is an error
\* and no router. The error is that of the first entry, in declaration order, whose own
\* compilation fails (invalid method token, status code, header name or assert); only
\* when every entry compiles is it the invalid-method error of an entry whose method
\* has no filter, of any such entry and not always the first. (An entry whose
\* compilation panics before the first failing one ends the compilation without a
\* result.)
C17_FailFastAtomic ==
    Compiled =>
        /\ result.r.tag = "Ok" =>
              /\ Failing = {} /\ Panicking = {} /\ Unfiltered = {}
              /\ RouterSize(result.r.router) = Len(call.ast)
        /\ Failing \cup Unfiltered # {} => result.r.tag # "Ok" /\ result.r.router = NoRouter
        /\ (Failing # {} /\ \A j \in Panicking : j > FirstFailing) =>
              result.r = CErr(EntryCompilationError(Entry_try_from(call.ast[FirstFailing]).err))
        /\ (Failing = {} /\ Panicking = {} /\ Unfiltered # {}) =>
              \E i \in Unfiltered : result.r = CErr(Error_InvalidMethod(call.ast[i].method))

\* C17 witness: the first entry is sound but for its method FOO, a well-formed token
\* without a method filter, the second has an invalid status code; the result is the
\* second entry's error
C17_Witness ==
    /\ Compiled
    /\ Len(call.ast) = 2
    /\ call.ast[1] = DefectiveEntry("FOO", "none")
    /\ call.ast[2] = DefectiveEntry("GET", "status")
    /\ result.r = CErr(EntryCompilationError(InvalidStatusCode(99)))

\* the compiled entries of the file, in declaration order
CompiledEntries == [i \in 1..Len(call.ast) |-> Entry_try_from(call.ast[i]).val]

\* the keys of the entries, each at its first appearance in the file
FirstAppearance ==
    LET firsts == SelectSeq([i \in 1..Len(call.ast) |-> i],
                            LAMBDA i : \A j \in 1..(i - 1) :
                                RouteKey(CompiledEntries[j]) # RouteKey(CompiledEntries[i]))
    IN  [n \in 1..Len(firsts) |-> RouteKey(CompiledEntries[firsts[n]])]

\* every entry lies in the bucket of its own key and in no other, in declaration order
GroupedByKey ==
    /\ DOMAIN result.r.router = {RouteKey(CompiledEntries[i]) : i \in 1..Len(call.ast)}
    /\ \A k \in DOMAIN result.r.router :
          result.r.router[k] = SelectSeq(CompiledEntries, LAMBDA e : RouteKey(e) = k)

\* C24 (as claimed): after a successful compilation every compiled entry lies in exactly
\* one bucket, that of its own (path, method); within a bucket the entries are in
\* declaration order; and the buckets are routed in the order in which their keys first
\* appear in the file.
C24_GroupingAsClaimed ==
    (Compiled /\ result.r.tag = "Ok") =>
        /\ GroupedByKey
        /\ result.r.routed = FirstAppearance

\* C24 (amended): after a successful compilation every compiled entry lies in exactly
\* one bucket, that of its own (path, method); within a bucket the entries are in
\* declaration order; every bucket is routed exactly once, in an order that is any
\* order of the keys and not always that of their first appearance.
C24_Grouping ==
    (Compiled /\ result.r.tag = "Ok") =>
        /\ GroupedByKey
        /\ result.r.routed \in IterationOrders(DOMAIN result.r.router)

\* C24 witness: a file that starts with a GET entry and a POST entry compiled, and the
\* POST bucket was routed before the GET bucket
C24_Witness ==
    /\ Compiled
    /\ result.r.tag = "Ok"
    /\ Len(call.ast) >= 2
    /\ call.ast[1] = DefectiveEntry("GET", "none")
    /\ call.ast[2] = DefectiveEntry("POST", "none")
    /\ result.r.routed[1] = <<Hello, "POST">>
    /\ result.r.router[<<Hello, "GET">>][1] = CompiledEntries[1]

\* the entries of the file with an assert whose operand is a big integer
WithBigInteger ==
    {i \in 1..Len(call.ast) :
        \E n \in 1..Len(call.ast[i].asserts) :
            /\ call.ast[i].asserts[n].predicate.value.t = "Number"
            /\ call.ast[i].asserts[n].predicate.value.num = BigInteger}

\* C25 (as claimed): a file with a predicate whose operand is a big integer, be it the
\* value of Equal, NotEqual or Include or the operand of a numeric comparison, does not
\* compile: no router comes back.
C25_BigIntegerFailsCompileAsClaimed ==
    (Compiled /\ WithBigInteger # {}) => result.r.tag # "Ok"

\* C25 witness: the file of one GET entry with the assert header "x-foo" greaterThan
\* <big integer> compiled, and the router holds the entry with the big integer operand
C25_Witness ==
    /\ Compiled
    /\ call.ast = <<DefectiveEntry("GET", "bigcmp")>>
    /\ result.r.tag = "Ok"
    /\ result.r.router[<<Hello, "GET">>][1].asserts[1].predicate = GreaterThan(BigInteger)

SevenMethods == {"GET", "POST", "PUT", "DELETE", "PATCH", "HEAD", "OPTIONS"}

\* the entries whose method token is no HTTP method
Unsupported == {i \in 1..Len(call.ast) : call.ast[i].method \in {"FOO", "BAR", "G T"}}

\* an invalid-method error, of an entry or of the router's construction
IsInvalidMethod(r) ==
    /\ r.tag = "Err"
    /\ r.err.error = "InvalidMethod" \/ r.err.kind = "InvalidMethod"
    /\ r.err.method \in {call.ast[i].method : i \in Unsupported}

\* the entries that fail or panic for something else than their method
OtherwiseUnsound ==
    {i \in 1..Len(call.ast) :
        LET e == Entry_try_from(call.ast[i])
        IN  e.tag = "Abort" \/ (e.tag = "Err" /\ e.err.kind # "InvalidMethod")}

XB == <<"x-b">>

\* path exists
AstPathExists ==
    AstAssert(AstQuery("Path", NoTemplate), AstPredicate(FALSE, "Exist", AstNull))

\* the 'name: value' lines a request is drawn with; one value is written with quotes
ImplicitLines ==
    {AstHeader(AstLiteral(n), AstLiteral(v)) :
        n \in {XFoo, XB}, v \in {<<"bar">>, <<DQ, "bar", DQ>>}}

ImplicitEntries ==
    {AstEntry("GET", Hello, 200, <<>>, AstNoBody, a, h) :
        a \in {<<>>, <<AstHeaderFooIsBar>>, <<AstPathExists>>},
        h \in SeqsUpTo(ImplicitLines, MaxHeaderLines)}

ImplicitRequests ==
    {Request(Hello, "GET", h, NoQuery, [n \in {} |-> <<>>]) :
        h \in {[n \in N |-> IF n = XB THEN [text |-> TRUE, s |-> <<"bar">>] ELSE v] :
                N \in SUBSET {XFoo, XB},
                v \in {[text |-> TRUE, s |-> <<"bar">>], [text |-> TRUE, s |-> <<"baz">>],
                       [text |-> TRUE, s |-> <<DQ, "bar", DQ>>], [text |-> FALSE, s |-> <<>>]}}}

InitEntry ==
    /\ Idle
    /\ call \in {[fn |-> "Entry::try_from", entry |-> e, request |-> r] :
                    e \in ImplicitEntries, r \in ImplicitRequests}
    /\ result = NoCall

\* compile the entry and ask the compiled entry whether it matches the request
CompileAndMatch ==
    /\ call.fn = "Entry::try_from"
    /\ result = NoCall
    /\ LET compiled == Entry_try_from(call.entry)
       IN  result' = [fn |-> "Entry::try_from",
                      compiled |-> compiled,
                      matched |-> IF compiled.tag = "Ok"
                                  THEN matches(compiled.val, call.request)
                                  ELSE "none"]
    /\ UNCHANGED <<dispatchVars, call>>

NextEntry == CompileAndMatch

SpecEntry == InitEntry /\ [][NextEntry]_vars

\* name and value of an implicit header line, as written
LineName(l) == l.key.elements[1].encoded

LineValue(l) == l.value.elements[1].encoded

\* the request carries the line's header with exactly the line's value
Carries(req, l) ==
    /\ LineName(l) \in DOMAIN req.headers
    /\ req.headers[LineName(l)] = [text |-> TRUE, s |-> LineValue(l)]

\* C18: each implicit 'name: value' line of a request compiles to exactly one assert
\* Header(name) Equal(value), not negated, placed after the asserts of the [Asserts]
\* section; so an entry with implicit lines matches a request only if the request
\* carries, for every line, that header with exactly that string value, and does not
\* match a request that lacks one of the headers.
C18_ImplicitHeaderAsserts ==
    (result # NoCall /\ call.fn = "Entry::try_from") =>
        LET n == Len(call.entry.asserts)
            lines == call.entry.req_headers
        IN  /\ result.compiled.tag = "Ok"
            /\ Len(result.compiled.val.asserts) = n + Len(lines)
            /\ \A i \in 1..n :
                  result.compiled.val.asserts[i] = Assert_try_from(call.entry.asserts[i]).val
            /\ \A i \in 1..Len(lines) :
                  result.compiled.val.asserts[n + i] =
                      AssertOf(Query("Header", LineName(lines[i])),
                               Equal(String(LineValue(lines[i]))), FALSE)
            /\ result.matched = "match" =>
                  \A i \in 1..Len(lines) : Carries(call.request, lines[i])
            /\ (\E i \in 1..Len(lines) : LineName(lines[i]) \notin DOMAIN call.request.headers)
                  => result.matched = "nomatch"

\* C18 witness: an entry with an [Asserts] assert and two implicit lines, one of them
\* with a quoted value, matched a request that carries both headers as written
C18_Witness ==
    /\ result # NoCall
    /\ call.fn = "Entry::try_from"
    /\ call.entry.asserts = <<AstPathExists>>
    /\ call.entry.req_headers =
          <<AstHeader(AstLiteral(XFoo), AstLiteral(<<DQ, "bar", DQ>>)),
            AstHeader(AstLiteral(XB), AstLiteral(<<"bar">>))>>
    /\ result.matched = "match"

\* ------------------------------------------------------------------ parser/sections.rs

\* the source text is a sequence of tokens: brackets, runs of alphanumerics, a
\* character that is neither alphanumeric nor white space, a space, a newline
NL == "NEWLINE"

AlphanumericRuns == {"Asserts", "Captures", "Foo", "x"}

SourceTokens == {"[", "]", "-", " ", NL} \cup AlphanumericRuns

\* characters in a token
Width(c) ==
    CASE c = "Asserts" -> 7
      [] c = "Captures" -> 8
      [] c = "Foo" -> 3
      [] OTHER -> 1

\* Reader state: the next token and the position (line, column) of its first character
ReaderState(cursor, line, column) == [cursor |-> cursor, line |-> line, column |-> column]

is_eof(input, state) == state.cursor > Len(input)

\* Reader::read over one token
read(input, state) ==
    IF input[state.cursor] = NL THEN ReaderState(state.cursor + 1, state.line + 1, 1)
    ELSE ReaderState(state.cursor + 1, state.line, state.column + Width(input[state.cursor]))

\* Reader::read_while: the state after the longest run of tokens of the set
RECURSIVE read_while(_, _, _)
read_while(input, state, tokens) ==
    IF ~is_eof(input, state) /\ input[state.cursor] \in tokens
    THEN read_while(input, read(input, state), tokens)
    ELSE state

Pos(line, column) == <<line, column>>

\* parser::Error: position, recoverable flag, and the ParseError inside
Expecting(pos, recoverable, value) ==
    [pos |-> pos, recoverable |-> recoverable, inner |-> "Expecting", value |-> value,
     name |-> <<>>]

ResponseSectionName(pos, name) ==
    [pos |-> pos, recoverable |-> FALSE, inner |-> "ResponseSectionName", value |-> "",
     name |-> name]

NoParseError == [pos |-> Pos(0, 0), recoverable |-> FALSE, inner |-> "", value |-> "", name |-> <<>>]

ParseOk(state, name) == [ok |-> TRUE, state |-> state, name |-> name, err |-> NoParseError]

ParseErr(state, e) == [ok |-> FALSE, state |-> state, name |-> <<>>, err |-> e]

\* try_literal: the literal is consumed, or the reader is left where it was and the
\* error, at that position, is recoverable
try_literal(s, input, state) ==
    IF ~is_eof(input, state) /\ input[state.cursor] = s
    THEN ParseOk(read(input, state), <<>>)
    ELSE ParseErr(state, Expecting(Pos(state.line, state.column), TRUE, s))

zero_or_more_spaces(input, state) == read_while(input, state, {" "})

\* line_terminator: spaces, then a newline or the end of the input (comments are not
\* among the tokens)
line_terminator(input, state) ==
    LET s == zero_or_more_spaces(input, state)
    IN  IF is_eof(input, s) THEN ParseOk(s, <<>>)
        ELSE IF input[s.cursor] = NL THEN ParseOk(read(input, s), <<>>)
        ELSE ParseErr(s, Expecting(Pos(s.line, s.column), FALSE, "line_terminator"))

\* optional_line_terminators: line terminators as long as one is there
RECURSIVE optional_line_terminators(_, _)
optional_line_terminators(input, state) ==
    IF is_eof(input, state) THEN state
    ELSE LET r == line_terminator(input, state)
         IN  IF r.ok THEN optional_line_terminators(input, r.state) ELSE state

section_name(input, state) ==
    LET pos == Pos(state.line, state.column)
        open == try_literal("[", input, state)
        after == read_while(input, open.state, AlphanumericRuns)
        name == SubSeq(input, open.state.cursor, after.cursor - 1)
        close == try_literal("]", input, after)
    IN  CASE ~open.ok -> open
          [] name = <<>> -> ParseErr(open.state, Expecting(pos, TRUE, "a valid section name"))
          [] ~close.ok -> close
          [] OTHER -> ParseOk(close.state, name)

\* request_section reporting an unknown name at the bracket itself
request_section_at_bracket(input, state) ==
    LET space0 == zero_or_more_spaces(input, optional_line_terminators(input, state))
        name == section_name(input, space0)
        line_terminator0 == line_terminator(input, name.state)
    IN  CASE ~name.ok -> name
          [] ~line_terminator0.ok -> line_terminator0
          [] name.name \in {<<"Captures">>, <<"Asserts">>} ->
                ParseOk(line_terminator0.state, name.name)
          [] OTHER ->
                ParseErr(line_terminator0.state,
                         ResponseSectionName(Pos(space0.line, space0.column), name.name))

\* request_section, up to the section's items: for [Captures] and [Asserts] the result
\* is the state after the header line, where the captures or asserts are parsed
request_section(input, state) ==
    LET space0 == zero_or_more_spaces(input, optional_line_terminators(input, state))
        name == section_name(input, space0)
        line_terminator0 == line_terminator(input, name.state)
    IN  CASE ~name.ok -> name
          [] ~line_terminator0.ok -> line_terminator0
          [] name.name \in {<<"Captures">>, <<"Asserts">>} ->
                ParseOk(line_terminator0.state, name.name)
          [] OTHER ->
                ParseErr(line_terminator0.state,
                         ResponseSectionName(Pos(space0.line, space0.column + 1), name.name))

\* ------------------------------------------------------------------ unit level: section headers

SectionInputs == SeqsUpTo(SourceTokens, MaxSectionLen)

InitSection ==
    /\ Idle
    /\ call \in {[fn |-> "request_section", input |-> s] : s \in SectionInputs}
    /\ result = NoCall

ParseSection ==
    /\ call.fn = "request_section"
    /\ result = NoCall
    /\ result' = [fn |-> "request_section",
                  r |-> request_section(call.input, ReaderState(1, 1, 1))]
    /\ UNCHANGED <<dispatchVars, call>>

NextSection == ParseSection

SpecSection == InitSection /\ [][NextSection]_vars

Parsed == result # NoCall /\ call.fn = "request_section"

\* where the section starts: after the blank lines and the indentation before it
SectionStart ==
    zero_or_more_spaces(call.input, optional_line_terminators(call.input, ReaderState(1, 1, 1)))

\* the source text from the section's start on
Rest == SubSeq(call.input, SectionStart.cursor, Len(call.input))

\* the text starts with a bracketed name of k alphanumeric runs
Bracketed(k) ==
    /\ k >= 1 /\ Len(Rest) >= k + 2
    /\ Rest[1] = "[" /\ Rest[k + 2] = "]"
    /\ \A i \in 2..(k + 1) : Rest[i] \in AlphanumericRuns

NameOf(k) == SubSeq(Rest, 2, k + 1)

Unknown(k) == Bracketed(k) /\ NameOf(k) \notin {<<"Captures">>, <<"Asserts">>}

\* after the closing bracket come only spaces, up to a newline or the end of the text
Terminated(k) ==
    \E j \in (k + 2)..Len(Rest) :
        /\ \A i \in (k + 3)..j : Rest[i] = " "
        /\ j = Len(Rest) \/ Rest[j + 1] = NL

\* what C20 says of the recoverable errors: text that does not start with '[' gives
\* a recoverable error at the starting position, and so does an empty pair '[]'
C20_Recoverable ==
    /\ (Rest = <<>> \/ Rest[1] # "[") =>
          /\ ~result.r.ok /\ result.r.err.recoverable
          /\ result.r.err.pos = Pos(SectionStart.line, SectionStart.column)
    /\ (Len(Rest) >= 2 /\ Rest[1] = "[" /\ Rest[2] = "]") =>
          ~result.r.ok /\ result.r.err.recoverable

StringOperandFuncs == {"Equal", "NotEqual", "Include", "StartWith", "EndWith", "Contain"}

OperandDelimiters == {NoDelimiter, SQ, DQ, BT}

\* the text between the delimiters
OperandTexts == SeqsUpTo({"foo", "d"}, MaxStrLen) \ {<<>>}

OperandSubjects ==
    { String(<<"foo">>), String(<<"foo", "d">>), String(<<DQ, "foo", DQ>>),
      Array(<<String(<<"foo">>)>>), Object([k \in {<<"foo">>} |-> I64(1)]), Null }

InitOperand ==
    /\ Idle
    /\ call \in {[fn |-> "Predicate::try_from",
                  predicate |-> AstPredicate(FALSE, f, AstString(Template(d, <<StringElement(s)>>))),
                  against |-> v] :
                    f \in StringOperandFuncs, d \in OperandDelimiters, s \in OperandTexts,
                    v \in OperandSubjects}
    /\ result = NoCall

\* compile the predicate and apply the compiled predicate to the subject
CompileAndApply ==
    /\ call.fn = "Predicate::try_from"
    /\ result = NoCall
    /\ result' = [fn |-> "Predicate::try_from",
                  compiled |-> Predicate_try_from(call.predicate),
                  r |-> Predicate_apply(Predicate_try_from(call.predicate).val, call.against)]
    /\ UNCHANGED <<dispatchVars, call>>

NextOperand == CompileAndApply

SpecOperand == InitOperand /\ [][NextOperand]_vars

OperandCompiled == result # NoCall /\ call.fn = "Predicate::try_from"

\* the operand as written between its delimiters
OperandText == call.predicate.value.template.elements[1].encoded

\* C21 (as claimed): the operand of a compiled Equal, NotEqual, Include, StartWith, EndWith
\* or Contain predicate is the source literal without its surrounding delimiters.
C21_OperandStrippedAsClaimed ==
    OperandCompiled =>
        /\ result.compiled.tag = "Ok"
        /\ result.compiled.val.value = String(OperandText)

\* C21 witness: startsWith "foo" applied to the subject foo d is false, the compiled
\* operand still holding its quotes
C21_Witness ==
    /\ OperandCompiled
    /\ call.predicate.func = "StartWith"
    /\ call.predicate.value.template = Template(DQ, <<StringElement(<<"foo">>)>>)
    /\ call.against = String(<<"foo", "d">>)
    /\ result.compiled.val.value = String(<<DQ, "foo", DQ>>)
    /\ result.r = PBool(FALSE)

\* ------------------------------------------------------------------ unit level: matching an entry

JsonpathExists == AssertOf(Query("Jsonpath", <<"$.a">>), Nullary("Exist"), FALSE)

PathExists == AssertOf(Query("Path", <<>>), Nullary("Exist"), FALSE)

MatchAsserts == {HeaderFooIsBar, HeaderFooIsNotBar, PathExists, BodyExists, JsonpathExists}

MatchEntries ==
    {Entry(Hello, "GET", a, 200, <<>>, NoBody) : a \in SeqsUpTo(MatchAsserts, MaxAsserts)}

\* predicates that are true of numbers, booleans or collections only
TypedPredicates ==
    { GreaterThan(Integer(1)), GreaterThanOrEqual(Float(1)), LessThan(BigInteger),
      LessThanOrEqual(Integer(0)), Nullary("IsInteger"), Nullary("IsFloat"),
      Nullary("IsBoolean"), Nullary("IsCollection"), Nullary("IsEmpty"),
      Equal(I64(1)), Equal(F64(2)), Equal(Bool(TRUE)) }

TypedQueries == {Query("Path", <<>>), Query("Header", XFoo), Query("Cookie", <<"sid">>)}

TypedAsserts == {AssertOf(q, p, FALSE) : q \in TypedQueries, p \in TypedPredicates}

InsertAt(s, i, a) == SubSeq(s, 1, i - 1) \o <<a>> \o SubSeq(s, i, Len(s))

\* entries holding one such assert, alone or among other asserts, at any position
TypedEntries ==
    UNION { {Entry(Hello, "GET", InsertAt(s, i, a), 200, <<>>, NoBody) :
                i \in 1..(Len(s) + 1), a \in TypedAsserts} :
            s \in SeqsUpTo(MatchAsserts, MaxAsserts - 1) }

\* requests whose header and cookie values read like a number, a boolean or nothing
TypedRequests ==
    { Request(Hello, "GET", h, NoQuery, c) :
        h \in { [n \in {XFoo} |-> [text |-> TRUE, s |-> <<"1">>]],
                [n \in {XFoo} |-> [text |-> TRUE, s |-> <<"true">>]],
                [n \in {XFoo} |-> [text |-> TRUE, s |-> <<>>]],
                [n \in {XFoo} |-> [text |-> FALSE, s |-> <<>>]] },
        c \in { [n \in {} |-> <<>>], [n \in {<<"sid">>} |-> <<"1">>],
                [n \in {<<"sid">>} |-> <<>>] } }

InitMatches ==
    /\ Idle
    /\ call \in {[fn |-> "Entry::matches", entry |-> e, request |-> r] :
                    e \in MatchEntries \cup TypedEntries, r \in Requests \cup TypedRequests}
    /\ result = NoCall

Match ==
    /\ call.fn = "Entry::matches"
    /\ result = NoCall
    /\ result' = [fn |-> "Entry::matches", r |-> matches(call.entry, call.request)]
    /\ UNCHANGED <<dispatchVars, call>>

NextMatches == Match

SpecMatches == InitMatches /\ [][NextMatches]_vars

Matched == result # NoCall /\ call.fn = "Entry::matches"

\* the orders in which the asserts of the entry can be written
AssertOrders(n) == {p \in [1..n -> 1..n] : \A i, j \in 1..n : p[i] = p[j] => i = j}

Permuted(entry, p) == [entry EXCEPT !.asserts = [i \in 1..Len(entry.asserts) |-> entry.asserts[p[i]]]]

\* C23 (as claimed): the outcome of matching an entry against a request (match, no
\* match, or abort) is the same for every permutation of the entry's asserts.
C23_OrderIrrelevantAsClaimed ==
    Matched =>
        \A p \in AssertOrders(Len(call.entry.asserts)) :
            matches(Permuted(call.entry, p), call.request) = result.r

\* C23 witness: an assert that fails followed by an assert on the body gave no match,
\* while the same two asserts in the other order abort
C23_Witness ==
    /\ Matched
    /\ call.entry.asserts = <<HeaderFooIsBar, BodyExists>>
    /\ result.r = "nomatch"
    /\ matches(Permuted(call.entry, <<2, 1>>), call.request) = "abort"

\* an assert, not negated, that pairs a Path, Header or Cookie query with a numeric
\* comparison, a type test other than IsString, IsEmpty, or Equal against a number or
\* a boolean
IsTyped(a) ==
    /\ ~a.not
    /\ a.query.q \in {"Path", "Header", "Cookie"}
    /\ \/ a.predicate.f \in NumericPredicateFuncs
       \/ a.predicate.f \in {"IsInteger", "IsFloat", "IsBoolean", "IsCollection", "IsEmpty"}
       \/ a.predicate.f = "Equal" /\ a.predicate.value.t \in {"i64", "f64", "bool"}

TypedIn(entry) == {i \in 1..Len(entry.asserts) : IsTyped(entry.asserts[i])}

\* C30 (as claimed): a Path, Header or Cookie query yields a string or null, so a
\* non-negated assert pairing one with a numeric comparison, IsInteger, IsFloat,
\* IsBoolean, IsCollection, IsEmpty or Equal against a number or boolean is false on
\* every request, and an entry holding such an assert matches no request.
C30_TypedAssertFalseAsClaimed ==
    (Matched /\ TypedIn(call.entry) # {}) =>
        /\ \A i \in TypedIn(call.entry) :
              /\ Query_apply(call.entry.asserts[i].query, call.request).tag = "Ok"
              /\ Query_apply(call.entry.asserts[i].query, call.request).val.t
                    \in {"string", "null"}
              /\ Assert_apply(call.entry.asserts[i], call.request) = AOk(FALSE)
        /\ result.r # "match"

\* C30 (amended): a Path, Header or Cookie query yields a string or null, or fails (a
\* header whose bytes are no text); such an assert is false or an error on every
\* request, never true, and an entry holding such an assert matches no request.
C30_TypedAssertNeverTrue ==
    (Matched /\ TypedIn(call.entry) # {}) =>
        /\ \A i \in TypedIn(call.entry) :
              /\ Query_apply(call.entry.asserts[i].query, call.request).tag = "Ok" =>
                    Query_apply(call.entry.asserts[i].query, call.request).val.t
                        \in {"string", "null"}
              /\ Query_apply(call.entry.asserts[i].query, call.request).tag # "Abort"
              /\ Assert_apply(call.entry.asserts[i], call.request) \in {AOk(FALSE), AErr}
        /\ result.r # "match"

\* C30 witnesses: an entry whose only assert is `header x-foo == 1` did not match a
\* request carrying x-foo: 1, the value being the string "1"; an entry whose only
\* assert is `header x-foo isEmpty` did not match a request with an empty x-foo
C30_Witness ==
    /\ Matched
    /\ XFoo \in DOMAIN call.request.headers
    /\ call.request.headers[XFoo].text
    /\ result.r = "nomatch"
    /\ \/ /\ call.entry.asserts = <<AssertOf(Query("Header", XFoo), Equal(I64(1)), FALSE)>>
          /\ call.request.headers[XFoo].s = <<"1">>
       \/ /\ call.entry.asserts = <<AssertOf(Query("Header", XFoo), Nullary("IsEmpty"), FALSE)>>
          /\ call.request.headers[XFoo].s = <<>>

\* ------------------------------------------------------------------ concurrent request handling

\* The router is built once and then shared by the tasks the runtime spawns, one per
\* request in flight. Each task runs the closure of its route on its own clone of the
\* closure, and so on its own copy of the bucket. Here pc, request, idx, bucket and
\* response hold one value per task.
Tasks == 1..MaxTasks

ConcurrentEntries ==
    { Entry(Hello, "GET", a, r[1], r[2], r[3]) :
        a \in {<<>>, <<HeaderFooIsBar>>}, r \in {p \in ResponseParts : p[1] \in {200, 400}} }

ConcurrentRequests ==
    { Request(Hello, "GET", [n \in {} |-> 0], NoQuery, [n \in {} |-> 0]),
      Request(Hello, "GET", [n \in {XFoo} |-> [text |-> TRUE, s |-> <<"bar">>]], NoQuery,
              [n \in {} |-> 0]),
      Request(Hello, "POST", [n \in {} |-> 0], NoQuery, [n \in {} |-> 0]),
      Request(OtherPath, "GET", [n \in {} |-> 0], NoQuery, [n \in {} |-> 0]) }

InitConcurrent ==
    /\ router \in {routes_to_entries(es) : es \in SeqsUpTo(ConcurrentEntries, MaxEntries)}
    /\ pc = [t \in Tasks |-> "idle"]
    /\ request = [t \in Tasks |-> NoRequest]
    /\ idx = [t \in Tasks |-> 0]
    /\ bucket = [t \in Tasks |-> <<>>]
    /\ response = [t \in Tasks |-> NoResponse]
    /\ servedBy = 0
    /\ evals = 0
    /\ call = NoCall
    /\ result = [fn |-> "compile_ast", router |-> router]

TaskReceive(t, r) ==
    /\ pc[t] = "idle"
    /\ pc' = [pc EXCEPT ![t] = "Lookup"]
    /\ request' = [request EXCEPT ![t] = r]
    /\ UNCHANGED <<router, idx, bucket, response, servedBy, evals, call, result>>

\* a lookup that moves the bucket out of the shared router instead of cloning it
TaskLookup_moving(t) ==
    /\ pc[t] = "Lookup"
    /\ LET to == Router_resolve(router, request[t])
       IN  CASE to.to = "closure" ->
                  /\ pc' = [pc EXCEPT ![t] = "Scan"]
                  /\ bucket' = [bucket EXCEPT ![t] = router[to.key]]
                  /\ idx' = [idx EXCEPT ![t] = 1]
                  /\ router' = [k \in DOMAIN router \ {to.key} |-> router[k]]
                  /\ UNCHANGED response
             [] to.to = "method_not_allowed" ->
                  /\ pc' = [pc EXCEPT ![t] = "MethodNotAllowed"]
                  /\ response' = [response EXCEPT ![t] =
                                    Response(METHOD_NOT_ALLOWED,
                                             AllowHeader(router, request[t].path), <<>>)]
                  /\ UNCHANGED <<router, bucket, idx>>
             [] OTHER ->
                  /\ pc' = [pc EXCEPT ![t] = "NotFound"]
                  /\ response' = [response EXCEPT ![t] = NotFoundResponse]
                  /\ UNCHANGED <<router, bucket, idx>>
    /\ UNCHANGED <<request, servedBy, evals, call, result>>

TaskLookup(t) ==
    /\ pc[t] = "Lookup"
    /\ LET to == Router_resolve(router, request[t])
       IN  CASE to.to = "closure" ->
                  /\ pc' = [pc EXCEPT ![t] = "Scan"]
                  /\ bucket' = [bucket EXCEPT ![t] = router[to.key]]
                  /\ idx' = [idx EXCEPT ![t] = 1]
                  /\ UNCHANGED response
             [] to.to = "method_not_allowed" ->
                  /\ pc' = [pc EXCEPT ![t] = "MethodNotAllowed"]
                  /\ response' = [response EXCEPT ![t] =
                                    Response(METHOD_NOT_ALLOWED,
                                             AllowHeader(router, request[t].path), <<>>)]
                  /\ UNCHANGED <<bucket, idx>>
             [] OTHER ->
                  /\ pc' = [pc EXCEPT ![t] = "NotFound"]
                  /\ response' = [response EXCEPT ![t] = NotFoundResponse]
                  /\ UNCHANGED <<bucket, idx>>
    /\ UNCHANGED <<router, request, servedBy, evals, call, result>>

TaskScan(t) ==
    /\ pc[t] = "Scan"
    /\ idx[t] <= Len(bucket[t])
    /\ LET asserts_passed == matches(bucket[t][idx[t]], request[t])
       IN  CASE asserts_passed = "match" ->
                  /\ response' = [response EXCEPT ![t] = handler(bucket[t][idx[t]])]
                  /\ pc' = [pc EXCEPT ![t] = handler_outcome(bucket[t][idx[t]])]
                  /\ UNCHANGED idx
             [] asserts_passed = "nomatch" ->
                  /\ idx' = [idx EXCEPT ![t] = idx[t] + 1]
                  /\ UNCHANGED <<response, pc>>
             [] OTHER ->
                  /\ pc' = [pc EXCEPT ![t] = "Aborted"]
                  /\ UNCHANGED <<response, idx>>
    /\ UNCHANGED <<router, request, bucket, servedBy, evals, call, result>>

TaskExhausted(t) ==
    /\ pc[t] = "Scan"
    /\ idx[t] > Len(bucket[t])
    /\ pc' = [pc EXCEPT ![t] = "NotFound"]
    /\ response' = [response EXCEPT ![t] = NotFoundResponse]
    /\ UNCHANGED <<router, request, idx, bucket, servedBy, evals, call, result>>

\* the response goes out and the task ends; the runtime spawns another for the next request
TaskReply(t) ==
    /\ pc[t] \in Terminal
    /\ pc' = [pc EXCEPT ![t] = "idle"]
    /\ request' = [request EXCEPT ![t] = NoRequest]
    /\ idx' = [idx EXCEPT ![t] = 0]
    /\ bucket' = [bucket EXCEPT ![t] = <<>>]
    /\ response' = [response EXCEPT ![t] = NoResponse]
    /\ UNCHANGED <<router, servedBy, evals, call, result>>

NextConcurrent ==
    \E t \in Tasks :
        \/ \E r \in ConcurrentRequests : TaskReceive(t, r)
        \/ TaskLookup(t)
        \/ TaskScan(t)
        \/ TaskExhausted(t)
        \/ TaskReply(t)

SpecConcurrent == InitConcurrent /\ [][NextConcurrent]_vars

\* what a request handled on its own ends with: the terminal state and the response
RECURSIVE ScanAlone(_, _, _)
ScanAlone(entries, req, i) ==
    IF i > Len(entries) THEN [pc |-> "NotFound", response |-> NotFoundResponse]
    ELSE CASE matches(entries[i], req) = "match" ->
                [pc |-> handler_outcome(entries[i]), response |-> handler(entries[i])]
           [] matches(entries[i], req) = "nomatch" -> ScanAlone(entries, req, i + 1)
           [] OTHER -> [pc |-> "Aborted", response |-> NoResponse]

Alone(table, req) ==
    CASE Router_resolve(table, req).to = "closure" ->
            ScanAlone(table[Router_resolve(table, req).key], req, 1)
      [] Router_resolve(table, req).to = "method_not_allowed" ->
            [pc |-> "MethodNotAllowed",
             response |-> Response(METHOD_NOT_ALLOWED, AllowHeader(table, req.path), <<>>)]
      [] OTHER -> [pc |-> "NotFound", response |-> NotFoundResponse]

\* C26: request handling never changes the dispatch table and the requests share no
\* state: whatever the interleaving of the tasks, the table is the one built at startup,
\* and a task that has reached its end holds the terminal state and the response its
\* request would get if it were the only request ever handled.
C26_TableReadOnly ==
    /\ router = result.router
    /\ \A t \in Tasks :
          pc[t] \in Terminal =>
              [pc |-> pc[t], response |-> response[t]] = Alone(result.router, request[t])

\* C26 witness: one task has served its request while another, with a different request
\* for the same bucket, is in the middle of its scan past the first entry
C26_Witness ==
    /\ pc[1] = "Served"
    /\ pc[2] = "Scan"
    /\ idx[2] = 2
    /\ request[1] # request[2]
    /\ request[1].path = request[2].path

\* ------------------------------------------------------------------ termination of a dispatch

TerminationEntries ==
    { Entry(Hello, "GET", a, r[1], r[2], r[3]) :
        a \in AssertLists, r \in {p \in ResponseParts : p[1] \in {200, 400}} }

InitTermination ==
    /\ router \in {routes_to_entries(es) : es \in SeqsUpTo(TerminationEntries, MaxEntries)}
    /\ pc = "idle"
    /\ request = NoRequest
    /\ idx = 0
    /\ bucket = <<>>
    /\ response = NoResponse
    /\ servedBy = 0
    /\ evals = 0
    /\ call = NoCall
    /\ result = NoCall

NextTermination ==
    \/ \E r \in ConcurrentRequests : Receive(r)
    \/ Lookup
    \/ Scan
    \/ Exhausted
    \/ Reply

\* the closure holds no await before it returns: once the runtime polls the task of a
\* request, the router's lookup and every turn of the loop are taken
SpecTermination ==
    /\ InitTermination
    /\ [][NextTermination]_vars
    /\ WF_vars(Lookup)
    /\ WF_vars(Scan)
    /\ WF_vars(Exhausted)

\* a table whose asserts use only the implemented queries and no big integer
SafeTable ==
    \A k \in DOMAIN router :
        \A i \in 1..Len(router[k]) :
            \A n \in 1..Len(router[k][i].asserts) :
                /\ router[k][i].asserts[n].query.q \in {"Path", "Header", "Cookie", "QueryParam"}
                /\ router[k][i].asserts[n].predicate.num # BigInteger

ClaimedTerminal == {"NotFound", "Served", "TemplateError"}

\* C27 (as claimed): over a table whose asserts use only Path, Header, Cookie and
\* QueryParam queries and no big integer, every dispatch of a request ends, in one of the
\* states NotFound, Served or TemplateError, with every entry of the bucket evaluated at
\* most once, in order, and at most one entry rendered.
C27_TerminatesAsClaimed ==
    /\ [](SafeTable =>
            /\ pc \in Terminal => pc \in ClaimedTerminal
            /\ evals <= Len(bucket)
            /\ pc = "Scan" => evals = idx - 1
            /\ Rendered => servedBy \in 1..Len(bucket) /\ evals = servedBy)
    /\ (SafeTable /\ pc = "Lookup") ~> (pc \in ClaimedTerminal)

\* C27 witness: over such a table, a request for a registered path under a method the
\* path is not registered with ended in the method router's fallback
C27_Witness ==
    /\ SafeTable
    /\ DOMAIN router = {<<Hello, "GET">>}
    /\ request.path = Hello
    /\ request.method = "POST"
    /\ pc = "MethodNotAllowed"
    /\ response.status = METHOD_NOT_ALLOWED

====
